---------------------------- MODULE Spec2Model ----------------------------
(***************************************************************************)
(* Model of the gauche entity simulation engine: the generational entity   *)
(* store (entity_manager.rs), the spatial occupancy grid (state.rs,        *)
(* tile.rs), the inventory (inventory.rs), movement and the scripted       *)
(* behaviours (entity_behavior.rs), item use (item_use.rs) and the         *)
(* per-tick pipeline step_playing (step.rs).                               *)
(*                                                                         *)
(* Positions are modelled by their truncation to a cell (pos.as_ivec2()):  *)
(* every position the code assigns is a cell centre, or the integer point  *)
(* (width, y) at which a rail layer is spawned.  Cooldowns are counted in  *)
(* whole ticks.  Option<T> is a sequence of length 0 (None) or 1 (Some).   *)
(***************************************************************************)
EXTENDS Integers, Sequences, FiniteSets

VARIABLES
    entities,        \* EntityManager.entities : slot -> Entity
    available_ids,   \* EntityManager.available_ids (pop takes the last element)
    player_vid,      \* State.player_vid : Option<VID>
    spatial_grid,    \* State.spatial_grid : cell -> Seq(VID)
    tiles,           \* Stage.tiles : cell -> TileData
    mode,            \* State.mode
    pc,              \* position inside step_playing
    queue,           \* vids collected by get_active_vids, still to be stepped
    inv,             \* inventory under test (inventory operations)
    call,            \* the last call made on the unit under test and its result
    released,        \* history: handles that were live when they were released
    hist,            \* history of the current tick
    frame,           \* State.frame : ticks stepped so far
    time_since_last_update,  \* State.time_since_last_update, in units of time
    frame_pause      \* State.frame_pause : ticks still to be skipped

vars == <<entities, available_ids, player_vid, spatial_grid, tiles, mode, pc,
          queue, inv, call, released, hist, frame, time_since_last_update, frame_pause>>

(***************************************************************************)
(* Bounds of the model.                                                    *)
(***************************************************************************)
MaxEntities == 4      \* slots in the pool (EntityManager::MAX_NUM_ENTITIES scaled down)
MaxVersion == 3       \* allocations per slot explored
StageW == 3           \* stage / grid width
StageH == 1           \* stage / grid height
MaxStacks == 2        \* stackable stacks in an inventory under test
PlayerMoveTicks == 1  \* ticks of the player's move_cooldown (0.12 s, scaled down)
ZombieMoveTicks == 2  \* ticks of a zombie's move_cooldown (0.8 s, scaled down)
ZombieAttackTicks == 2 \* ticks of a zombie's attack_cooldown (1.0 s, scaled down)
PlayerHealth == 5     \* health and max_hp of the player (100, scaled down)
ZombieHealth == 10    \* health and max_hp of a zombie (40, scaled down)
NumZombies == 1       \* zombies placed by init_playing_state (100, scaled down)
FistUseTicks == 1     \* ticks of the Fist's use_cooldown (0.2 s, scaled down)
MedkitUseTicks == 1   \* ticks of the Medkit's use_cooldown (5.0 s, scaled down)
BandageUseTicks == 1  \* ticks of the Bandage's use_cooldown (2.0 s, scaled down)
BandaidUseTicks == 1  \* ticks of the Bandaid's use_cooldown (0.2 s, scaled down)
HatUseTicks == 1      \* ticks of the ConductorHat's use_cooldown
WallUseTicks == 2     \* ticks of the Wall's use_cooldown (0.1 s, scaled down)
MedkitStart == 1      \* count of the Medkit stack the player starts with (max_count, scaled down)
MaxSelect == 2        \* highest inventory slot the numpad input selects
MaxFrames == 4        \* ticks of a game explored

(***************************************************************************)
(* Program constants.                                                      *)
(***************************************************************************)
MAX_SLOTS == 10
FistMaxCount == 1
MedkitMaxCount == 10
BandageMaxCount == 10
BandaidMaxCount == 20
WallMaxCount == 99
WallHp == 100               \* hp and max_hp of a placed Wall
ATTACK_LEAN == 45           \* degrees attacker and defender lean in an attack
RailLayerMoveTicks == 1     \* move_cooldown 0.01 s: ready again on the next tick
TrainMoveTicks == 2         \* move_cooldown 0.02 s: ready again two ticks later
TrainHealth == 10000000
PunchStrength == 10
ScratchStrength == 5
TrainDamage == 1000
FIST_DAMAGE == 10
HEAL_AMOUNT == 100
BANDAGE_HEAL == 10
BANDAID_HEAL == 1
TrainLengthMin == 5
TrainLengthMax == 20

None == <<>>
Some(x) == <<x>>
IsSome(o) == Len(o) = 1
Unwrap(o) == o[1]

Slots == 0 .. (MaxEntities - 1)
VID(i, v) == [id |-> i, version |-> v]

(***************************************************************************)
(* Items and the inventory.                                                *)
(***************************************************************************)
ItemTypes == {"Fist", "Medkit", "ConductorHat"}

ItemMaxCount(t) ==
    IF t = "Medkit" THEN MedkitMaxCount
    ELSE IF t = "Bandage" THEN BandageMaxCount
    ELSE IF t = "Bandaid" THEN BandaidMaxCount
    ELSE IF t = "Wall" THEN WallMaxCount ELSE FistMaxCount

NewItem(t) == [type_ |-> t, count |-> 1, max_count |-> ItemMaxCount(t),
               use_cooldown_countdown |-> 0]

ItemWithCount(t, n) == [NewItem(t) EXCEPT !.count = n]

is_stackable(item) == item.max_count > 1

NewInventory == [entries |-> <<>>, selected_index |-> 0]

is_full(i) == Len(i.entries) >= MAX_SLOTS

HasIndex(entries, idx) == \E k \in 1 .. Len(entries) : entries[k].index = idx

\* position in the vector of the entry with this slot index, 0 when there is none
PositionOf(entries, idx) ==
    IF HasIndex(entries, idx)
    THEN CHOOSE k \in 1 .. Len(entries) :
            /\ entries[k].index = idx
            /\ \A j \in 1 .. (k - 1) : entries[j].index # idx
    ELSE 0

Min(a, b) == IF a < b THEN a ELSE b

RECURSIVE InsertSorted(_, _)
InsertSorted(sorted, e) ==
    IF sorted = <<>> THEN <<e>>
    ELSE IF Head(sorted).index <= e.index
         THEN <<Head(sorted)>> \o InsertSorted(Tail(sorted), e)
         ELSE <<e>> \o sorted

RECURSIVE SortByIndex(_)
SortByIndex(entries) ==
    IF entries = <<>> THEN <<>>
    ELSE InsertSorted(SortByIndex(SubSeq(entries, 1, Len(entries) - 1)),
                      entries[Len(entries)])

\* one iteration of the stacking loop of insert: the amount moved into entry e
StackTransfer(e, item) ==
    IF e.item.type_ = item.type_ /\ e.item.count < e.item.max_count
    THEN Min(e.item.max_count - e.item.count, item.count)
    ELSE 0

\* item_to_add.count -= amount_to_transfer
TakeFromIncomingMut(item, amt) == [item EXCEPT !.count = 0]

TakeFromIncoming(item, amt) == [item EXCEPT !.count = item.count - amt]

\* the stacking loop from entry k on; stops as soon as the incoming count is 0
RECURSIVE StackLoop(_, _, _)
StackLoop(entries, k, item) ==
    IF k > Len(entries) THEN [entries |-> entries, item |-> item, done |-> FALSE]
    ELSE LET e == entries[k]
             matches == e.item.type_ = item.type_ /\ e.item.count < e.item.max_count
             amt == StackTransfer(e, item)
             e2 == [e EXCEPT !.item.count = e.item.count + amt]
             item2 == TakeFromIncoming(item, amt)
             entries2 == [entries EXCEPT ![k] = e2]
         IN IF matches
            THEN IF item2.count = 0
                 THEN [entries |-> entries2, item |-> item2, done |-> TRUE]
                 ELSE StackLoop(entries2, k + 1, item2)
            ELSE StackLoop(entries, k + 1, item)

FirstEmptySlot(entries) ==
    CHOOSE i \in 0 .. (MAX_SLOTS - 1) :
        /\ ~HasIndex(entries, i)
        /\ \A j \in 0 .. (i - 1) : HasIndex(entries, j)

\* the swap branch of insert: the entries after the swap at vector position p
SwapIntoMut(entries, p, item) == entries

SwapInto(entries, p, item) == [entries EXCEPT ![p].item = item]

\* Inventory::insert: the inventory afterwards and the returned Option<Item>
Insert(i, item_to_add) ==
    LET st == IF is_stackable(item_to_add)
              THEN StackLoop(i.entries, 1, item_to_add)
              ELSE [entries |-> i.entries, item |-> item_to_add, done |-> FALSE]
        i1 == [i EXCEPT !.entries = st.entries]
        item == st.item
        pos_in_vec == PositionOf(i1.entries, i1.selected_index)
    IN IF st.done THEN [inv |-> i1, ret |-> None]
       ELSE IF ~is_full(i1) /\ ~HasIndex(i1.entries, i1.selected_index)
       THEN [inv |-> [i1 EXCEPT !.entries = SortByIndex(Append(i1.entries,
                          [index |-> i1.selected_index, item |-> item]))],
             ret |-> None]
       ELSE IF ~is_full(i1) /\ (\E s \in 0 .. (MAX_SLOTS - 1) : ~HasIndex(i1.entries, s))
       THEN [inv |-> [i1 EXCEPT !.entries = SortByIndex(Append(i1.entries,
                          [index |-> FirstEmptySlot(i1.entries), item |-> item]))],
             ret |-> None]
       ELSE IF pos_in_vec # 0
       THEN [inv |-> [i1 EXCEPT !.entries = SwapInto(i1.entries, pos_in_vec, item)],
             ret |-> Some(i1.entries[pos_in_vec].item)]
       ELSE [inv |-> i1, ret |-> Some(item)]

get(i, idx) ==
    IF HasIndex(i.entries, idx) THEN Some(i.entries[PositionOf(i.entries, idx)]) ELSE None

has_selected_entry(i) == IsSome(get(i, i.selected_index))

RemoveAt(seq, p) == SubSeq(seq, 1, p - 1) \o SubSeq(seq, p + 1, Len(seq))

\* Inventory::remove_selected_entry (the inventory afterwards)
remove_selected_entry(i) ==
    LET p == PositionOf(i.entries, i.selected_index)
    IN IF p # 0 THEN [i EXCEPT !.entries = RemoveAt(i.entries, p)] ELSE i

RECURSIVE Retain(_, _)
Retain(entries, idx) ==
    IF entries = <<>> THEN <<>>
    ELSE (IF Head(entries).index # idx THEN <<Head(entries)>> ELSE <<>>)
         \o Retain(Tail(entries), idx)

\* Inventory::remove_count_from_slot
remove_count_from_slot(i, idx, count_to_remove) ==
    LET p == PositionOf(i.entries, idx)
    IN IF p = 0 THEN i
       ELSE LET left == IF i.entries[p].item.count > count_to_remove
                        THEN i.entries[p].item.count - count_to_remove ELSE 0
                i1 == [i EXCEPT !.entries[p].item.count = left]
            IN IF left = 0 THEN [i1 EXCEPT !.entries = Retain(@, idx)] ELSE i1

\* the index is stored whatever it is
set_selected_indexMut(i, idx) == [i EXCEPT !.selected_index = idx]

\* Inventory::set_selected_index
set_selected_index(i, idx) ==
    IF idx < MAX_SLOTS THEN [i EXCEPT !.selected_index = idx] ELSE i

\* Inventory::increment_selected_index
increment_selected_index(i) ==
    [i EXCEPT !.selected_index = (@ + 1) % MAX_SLOTS]

\* Inventory::decrement_selected_index
decrement_selected_index(i) ==
    [i EXCEPT !.selected_index = (@ + MAX_SLOTS - 1) % MAX_SLOTS]

\* the last return of insert is reached: the stacking loop leaves a remainder,
\* no slot is free, and no entry has the selected index
InsertFailsafe(i, item_to_add) ==
    LET st == IF is_stackable(item_to_add)
              THEN StackLoop(i.entries, 1, item_to_add)
              ELSE [entries |-> i.entries, item |-> item_to_add, done |-> FALSE]
    IN /\ ~st.done
       /\ \/ Len(st.entries) >= MAX_SLOTS
          \/ \A s \in 0 .. (MAX_SLOTS - 1) : HasIndex(st.entries, s)
       /\ ~HasIndex(st.entries, i.selected_index)


(***************************************************************************)
(* Entity records and the entity store (entity.rs, entity_manager.rs).     *)
(***************************************************************************)
\* Entity::new, with the slot index that EntityManager::new writes into vid.id
DefaultEntity(i) ==
    [active |-> FALSE, marked_for_destruction |-> FALSE, type_ |-> "None",
     vid |-> VID(i, 0), impassable |-> FALSE, attackable |-> TRUE,
     pos |-> <<0, 0>>, health |-> 0, max_hp |-> 0,
     move_cooldown |-> 0, move_cooldown_countdown |-> 0,
     attack_cooldown |-> 0, attack_cooldown_countdown |-> 0,
     alignment |-> "Neutral", mood |-> "Idle", direction |-> <<0, 0>>,
     target_pos |-> None, counter_a |-> 0, item |-> None,
     inventory |-> NewInventory]

\* EntityManager::new: available_ids.insert(0, i) for i = 0 .. MAX-1
RECURSIVE InitialIds(_)
InitialIds(n) == IF n = 0 THEN <<>> ELSE <<n - 1>> \o InitialIds(n - 1)

NextVersionMut(v) == v

\* new_entity: self.entities[id].vid.version += 1
NextVersion(v) == v + 1

\* with no free slot, slot 0 is handed out again
new_entityMut(ents, avail) ==
    LET id == IF avail # <<>> THEN avail[Len(avail)] ELSE 0
        ents2 == [ents EXCEPT ![id].active = TRUE,
                              ![id].vid.version = NextVersion(@)]
    IN [entities |-> ents2,
        available_ids |-> SubSeq(avail, 1, Len(avail) - 1),
        vid |-> Some(ents2[id].vid)]

\* EntityManager::new_entity
new_entity(ents, avail) ==
    IF avail # <<>>
    THEN LET id == avail[Len(avail)]
             ents2 == [ents EXCEPT ![id].active = TRUE,
                                   ![id].vid.version = NextVersion(@)]
         IN [entities |-> ents2,
             available_ids |-> SubSeq(avail, 1, Len(avail) - 1),
             vid |-> Some(ents2[id].vid)]
    ELSE [entities |-> ents, available_ids |-> avail, vid |-> None]

\* EntityManager::set_inactive
set_inactive(ents, avail, id) ==
    [entities |-> [ents EXCEPT ![id].active = FALSE],
     available_ids |-> <<id>> \o avail]

\* the release without the test of version and active
set_inactive_vidMut(ents, avail, vid) == set_inactive(ents, avail, vid.id)

\* EntityManager::set_inactive_vid
set_inactive_vid(ents, avail, vid) ==
    IF vid.version = ents[vid.id].vid.version /\ ents[vid.id].active
    THEN set_inactive(ents, avail, vid.id)
    ELSE [entities |-> ents, available_ids |-> avail]

\* EntityManager::get_entity
get_entity(ents, vid) ==
    IF vid.version = ents[vid.id].vid.version /\ ents[vid.id].active
    THEN Some(ents[vid.id])
    ELSE None

\* EntityManager::get_entity_mut
get_entity_mut(ents, vid) ==
    IF ents[vid.id].active /\ vid.version = ents[vid.id].vid.version
    THEN Some(ents[vid.id])
    ELSE None

RECURSIVE ActiveFrom(_, _)
ActiveFrom(ents, i) ==
    IF i >= MaxEntities THEN <<>>
    ELSE (IF ents[i].active THEN <<ents[i].vid>> ELSE <<>>) \o ActiveFrom(ents, i + 1)

\* EntityManager::get_active_vids
get_active_vids(ents) == ActiveFrom(ents, 0)

\* EntityManager::clear_all_entities
clear_all_entities(ents) ==
    [entities |-> [i \in Slots |-> [ents[i] EXCEPT !.active = FALSE, !.type_ = "None"]],
     available_ids |-> InitialIds(MaxEntities)]

\* the slots clear_all_non_player_entities puts back, in the order of its loop
RECURSIVE NonPlayerIds(_, _)
NonPlayerIds(ents, n) ==
    IF n = 0 THEN <<>>
    ELSE (IF ents[n - 1].type_ # "Player" THEN <<n - 1>> ELSE <<>>) \o NonPlayerIds(ents, n - 1)

\* EntityManager::clear_all_non_player_entities
clear_all_non_player_entities(ents) ==
    [entities |-> [i \in Slots |-> IF ents[i].type_ # "Player"
                                   THEN [ents[i] EXCEPT !.active = FALSE, !.type_ = "None"]
                                   ELSE ents[i]],
     available_ids |-> NonPlayerIds(ents, MaxEntities)]

VersionsInBound(ents) == \A i \in Slots : ents[i].vid.version <= MaxVersion

(***************************************************************************)
(* The entity store on its own: any sequence of new_entity and             *)
(* set_inactive_vid calls, the latter on any handle, live or not.          *)
(***************************************************************************)
NoCall == [op |-> "none"]
NoHist == [zeroed |-> {}, swept |-> {}, pre_player |-> <<>>, dropped |-> <<>>]
Cells == (0 .. (StageW - 1)) \X (0 .. (StageH - 1))
EmptyGrid == CHOOSE g \in [Cells -> {<<>>}] : TRUE
DefaultTile == [tile |-> "None", hp |-> 0, breakable |-> FALSE]
EmptyStage == CHOOSE t \in [Cells -> {DefaultTile}] : TRUE

InitStore ==
    /\ entities = [i \in Slots |-> DefaultEntity(i)]
    /\ available_ids = InitialIds(MaxEntities)
    /\ player_vid = None
    /\ spatial_grid = EmptyGrid
    /\ tiles = EmptyStage
    /\ mode = "Title"
    /\ pc = "store"
    /\ queue = <<>>
    /\ inv = NewInventory
    /\ call = NoCall
    /\ released = {}
    /\ hist = NoHist
    /\ frame = 0
    /\ time_since_last_update = 0
    /\ frame_pause = 0

StoreNewEntity ==
    LET r == new_entity(entities, available_ids)
    IN /\ pc = "store"
       /\ VersionsInBound(r.entities)
       /\ entities' = r.entities
       /\ available_ids' = r.available_ids
       /\ call' = [op |-> "new_entity", pre |-> entities, pre_ids |-> available_ids,
                   ret |-> r.vid]
       /\ UNCHANGED <<player_vid, spatial_grid, tiles, mode, pc, queue, inv,
                      released, hist, frame, time_since_last_update, frame_pause>>

StoreSetInactiveVid ==
    \E id \in Slots, v \in 0 .. MaxVersion :
        LET vid == VID(id, v)
            r == set_inactive_vid(entities, available_ids, vid)
        IN /\ pc = "store"
           /\ entities' = r.entities
           /\ available_ids' = r.available_ids
           /\ released' = IF IsSome(get_entity(entities, vid))
                          THEN released \cup {vid}
                          ELSE released
           /\ call' = [op |-> "set_inactive_vid", pre |-> entities,
                       pre_ids |-> available_ids, vid |-> vid]
           /\ UNCHANGED <<player_vid, spatial_grid, tiles, mode, pc, queue, inv,
                          hist, frame, time_since_last_update, frame_pause>>

\* clear_all_entities, as init_playing_state calls it when a game starts over
StoreClearAll ==
    LET r == clear_all_entities(entities)
    IN /\ pc = "store"
       /\ entities' = r.entities
       /\ available_ids' = r.available_ids
       /\ released' = released \cup {entities[i].vid : i \in {k \in Slots : entities[k].active}}
       /\ call' = [op |-> "clear_all_entities", pre |-> entities,
                   pre_ids |-> available_ids]
       /\ UNCHANGED <<player_vid, spatial_grid, tiles, mode, pc, queue, inv,
                      hist, frame, time_since_last_update, frame_pause>>

NextStore == StoreNewEntity \/ StoreSetInactiveVid \/ StoreClearAll

SpecStore == InitStore /\ [][NextStore]_vars

\* C1: a handle that was released never resolves again, through get_entity or
\* get_entity_mut, also after its slot has been given to a new entity.
C1_StaleHandleAbsent ==
    \A h \in released :
        /\ get_entity(entities, h) = None
        /\ get_entity_mut(entities, h) = None

\* a released handle whose slot is occupied again by a newer generation
C1_Witness ==
    \E h \in released :
        /\ entities[h.id].active
        /\ entities[h.id].vid.version > h.version

(***************************************************************************)
(* The inventory on its own: insert applied once to an inventory that the  *)
(* inventory operations can build (distinct slot indices below MAX_SLOTS,  *)
(* entries sorted by index, 1 <= count <= max_count).                      *)
(***************************************************************************)
SlotIndices == 0 .. (MAX_SLOTS - 1)

\* occupied slots: the first k slots, or all slots but one
OccupiedSets ==
    {0 .. (k - 1) : k \in 0 .. MAX_SLOTS} \cup {SlotIndices \ {j} : j \in SlotIndices}

\* counts of the stackable stacks already in the inventory
StackCounts == {MedkitMaxCount - 2, MedkitMaxCount}

\* incoming items
IncomingItems ==
    {NewItem("Fist")} \cup {ItemWithCount("Medkit", n) : n \in {1, 3, 5}}

RECURSIVE EntriesFrom(_, _, _)
EntriesFrom(occ, cnt, i) ==
    IF i >= MAX_SLOTS THEN <<>>
    ELSE (IF i \in occ
          THEN <<[index |-> i,
                  item |-> IF i \in DOMAIN cnt
                           THEN ItemWithCount("Medkit", cnt[i])
                           ELSE NewItem("Fist")]>>
          ELSE <<>>) \o EntriesFrom(occ, cnt, i + 1)

InitInv ==
    /\ entities = [i \in Slots |-> DefaultEntity(i)]
    /\ available_ids = InitialIds(MaxEntities)
    /\ player_vid = None
    /\ spatial_grid = EmptyGrid
    /\ tiles = EmptyStage
    /\ mode = "Title"
    /\ pc = "inv"
    /\ queue = <<>>
    /\ \E occ \in OccupiedSets, sel \in SlotIndices :
          \E stacks \in {S \in SUBSET occ : Cardinality(S) <= MaxStacks} :
             \E cnt \in [stacks -> StackCounts] :
                inv = [entries |-> EntriesFrom(occ, cnt, 0), selected_index |-> sel]
    /\ call = NoCall
    /\ released = {}
    /\ hist = NoHist
    /\ frame = 0
    /\ time_since_last_update = 0
    /\ frame_pause = 0

InvInsert ==
    \E item \in IncomingItems :
        LET r == Insert(inv, item)
        IN /\ pc = "inv"
           /\ inv' = r.inv
           /\ call' = [op |-> "insert", pre |-> inv, arg |-> item, ret |-> r.ret]
           /\ pc' = "inv_done"
           /\ UNCHANGED <<entities, available_ids, player_vid, spatial_grid, tiles,
                          mode, queue, released, hist, frame, time_since_last_update, frame_pause>>

NextInv == InvInsert

SpecInv == InitInv /\ [][NextInv]_vars

RECURSIVE SumCounts(_, _)
SumCounts(entries, t) ==
    IF entries = <<>> THEN 0
    ELSE (IF Head(entries).item.type_ = t THEN Head(entries).item.count ELSE 0)
         + SumCounts(Tail(entries), t)

RECURSIVE SumSpace(_, _)
SumSpace(entries, t) ==
    IF entries = <<>> THEN 0
    ELSE (IF Head(entries).item.type_ = t
          THEN Head(entries).item.max_count - Head(entries).item.count ELSE 0)
         + SumSpace(Tail(entries), t)

IndexSet(entries) == {entries[k].index : k \in 1 .. Len(entries)}

ItemAt(i, idx) == Unwrap(get(i, idx)).item

OptCount(o, t) == IF IsSome(o) /\ Unwrap(o).type_ = t THEN Unwrap(o).count ELSE 0

\* the item the insert put into a slot that held nothing or the swapped-in selected slot
PlacedCount(pre, post, ret, t) ==
    LET new == IndexSet(post.entries) \ IndexSet(pre.entries)
    IN IF new # {}
       THEN (LET idx == CHOOSE x \in new : TRUE IN OptCount(Some(ItemAt(post, idx)), t))
       ELSE IF IsSome(ret) /\ HasIndex(post.entries, post.selected_index)
            THEN OptCount(Some(ItemAt(post, post.selected_index)), t)
            ELSE 0

\* what the stacks of type t that were in the inventory before gained, the stack
\* that was swapped out being counted with the count it was returned with
MergedCount(pre, post, ret, t) ==
    LET swapped == IsSome(ret) /\ HasIndex(pre.entries, pre.selected_index)
        after(idx) == IF swapped /\ idx = pre.selected_index
                      THEN Unwrap(ret) ELSE ItemAt(post, idx)
        gain(idx) == IF ItemAt(pre, idx).type_ = t
                     THEN after(idx).count - ItemAt(pre, idx).count ELSE 0
        RECURSIVE Sum(_)
        Sum(S) == IF S = {} THEN 0
                  ELSE LET x == CHOOSE y \in S : TRUE IN gain(x) + Sum(S \ {x})
    IN Sum(IndexSet(pre.entries))

\* C8: insert of a stackable item of count n loses nothing: n is what the existing
\* stacks of its type gained plus what was placed into a slot (an empty one or the
\* selected one); nothing of the incoming item comes back as a remainder.  Every
\* other entry is unchanged, and the displaced selected item is the returned one.
C8_InsertConserves ==
    (pc = "inv_done" /\ is_stackable(call.arg)) =>
        LET pre == call.pre
            t == call.arg.type_
            swapped == IsSome(call.ret)
        IN /\ call.arg.count = MergedCount(pre, inv, call.ret, t)
                               + PlacedCount(pre, inv, call.ret, t)
           /\ \A u \in ItemTypes :
                 SumCounts(inv.entries, u) + OptCount(call.ret, u)
                     = SumCounts(pre.entries, u) + (IF u = t THEN call.arg.count ELSE 0)
           /\ IndexSet(pre.entries) \subseteq IndexSet(inv.entries)
           /\ \A idx \in IndexSet(pre.entries) :
                 ItemAt(pre, idx).type_ # t =>
                     IF swapped /\ idx = pre.selected_index
                     THEN call.ret = Some(ItemAt(pre, idx))
                     ELSE ItemAt(inv, idx) = ItemAt(pre, idx)

\* part of a stackable item was merged into a stack and the rest swapped in
C8_Witness ==
    /\ pc = "inv_done"
    /\ is_stackable(call.arg)
    /\ IsSome(call.ret)
    /\ MergedCount(call.pre, inv, call.ret, call.arg.type_) > 0
    /\ PlacedCount(call.pre, inv, call.ret, call.arg.type_) > 0

NotAbsorbed(pre, item) ==
    ~is_stackable(item) \/ SumSpace(pre.entries, item.type_) < item.count

\* C10 as stated: with all slots occupied and Y not fully absorbed, insert returns
\* the item that was in the selected slot, the selected slot holds Y and every
\* other slot keeps its item.
C10_SwapAsStated ==
    (pc = "inv_done" /\ is_full(call.pre) /\ NotAbsorbed(call.pre, call.arg)) =>
        LET pre == call.pre
            sel == pre.selected_index
        IN /\ call.ret = Some(ItemAt(pre, sel))
           /\ ItemAt(inv, sel) = call.arg
           /\ \A idx \in SlotIndices \ {sel} : get(inv, idx) = get(pre, idx)

\* a stack of the incoming type filled up by the stacking pass
FilledUp(item, t) == IF item.type_ = t THEN [item EXCEPT !.count = item.max_count] ELSE item

\* C10 amended: with all slots occupied and Y not fully absorbed, insert returns the
\* item of the selected slot, the selected slot holds what is left of Y, and every
\* other slot keeps its index and its item; but the stacking pass comes first, so
\* every stack of Y's type (the returned one included) has been filled to max_count
\* and what is left of Y is its count less the space those stacks had.
C10_SwapAfterStacking ==
    (pc = "inv_done" /\ is_full(call.pre) /\ NotAbsorbed(call.pre, call.arg)) =>
        LET pre == call.pre
            sel == pre.selected_index
            y == call.arg
            t == IF is_stackable(y) THEN y.type_ ELSE "none"
            left == IF is_stackable(y)
                    THEN y.count - SumSpace(pre.entries, y.type_) ELSE y.count
        IN /\ call.ret = Some(FilledUp(ItemAt(pre, sel), t))
           /\ ItemAt(inv, sel) = [y EXCEPT !.count = left]
           /\ IndexSet(inv.entries) = SlotIndices
           /\ inv.selected_index = sel
           /\ \A idx \in SlotIndices \ {sel} :
                 ItemAt(inv, idx) = FilledUp(ItemAt(pre, idx), t)

\* a full inventory, part of Y absorbed by a stack and the rest swapped in
C10_Witness ==
    /\ pc = "inv_done"
    /\ is_full(call.pre)
    /\ NotAbsorbed(call.pre, call.arg)
    /\ is_stackable(call.arg)
    /\ SumSpace(call.pre.entries, call.arg.type_) > 0
    /\ IsSome(call.ret)

(***************************************************************************)
(* The world: stage tiles, spatial grid and the operations on them.  A     *)
(* world state is the record st of the fields of State that the tick       *)
(* reads and writes.  Positions are kept as the cell pos.as_ivec2() gives. *)
(***************************************************************************)
World(e, a, g, t, p) ==
    [entities |-> e, available_ids |-> a, spatial_grid |-> g, tiles |-> t,
     player_vid |-> p]

Plus(p, d) == <<p[1] + d[1], p[2] + d[2]>>

Left == <<-1, 0>>
Right == <<1, 0>>
Up == <<0, -1>>
Down == <<0, 1>>
Stay == <<0, 0>>

\* Stage::in_bounds
in_bounds(p) == p[1] >= 0 /\ p[1] < StageW /\ p[2] >= 0 /\ p[2] < StageH

\* Stage::get_tile_type (a negative coordinate cast to usize is past the end)
get_tile_type(t, p) == IF in_bounds(p) THEN Some(t[p].tile) ELSE None

\* Stage::get_tile
get_tile(t, p) == IF in_bounds(p) THEN Some(t[p]) ELSE None

\* Stage::set_tile
set_tile(t, p, td) == IF in_bounds(p) THEN [t EXCEPT ![p] = td] ELSE t

\* every tile but a Wall can be walked on
walkableMut(tile) == tile # "Wall"

\* Tile::walkable
walkable(tile) == tile \in {"None", "Grass", "Ruin", "Rail"}

Without(cell, vid) == SelectSeq(cell, LAMBDA v : v # vid)

\* State::add_entity_to_grid
add_entity_to_grid(g, vid, p) ==
    IF in_bounds(p) THEN [g EXCEPT ![p] = Append(@, vid)] ELSE g

\* the handle stays in its cell
remove_entity_from_gridMut(g, vid, p) == g

\* State::remove_entity_from_grid
remove_entity_from_grid(g, vid, p) ==
    IF in_bounds(p) THEN [g EXCEPT ![p] = Without(@, vid)] ELSE g

\* State::move_entity_in_grid
move_entity_in_grid(g, vid, old_pos, new_pos) ==
    add_entity_to_grid(remove_entity_from_grid(g, vid, old_pos), vid, new_pos)

InCell(g, vid, c) == \E k \in 1 .. Len(g[c]) : g[c][k] = vid

\* the entities of a cell that resolve, in the order of the cell
RECURSIVE Resolved(_, _)
Resolved(ents, cell) ==
    IF cell = <<>> THEN <<>>
    ELSE get_entity(ents, Head(cell)) \o Resolved(ents, Tail(cell))

\* the slot of the handle is looked at without resolving the handle
is_tile_occupiedMut(st, p) ==
    IF ~in_bounds(p) THEN TRUE
    ELSE \E k \in 1 .. Len(st.spatial_grid[p]) :
            LET e == st.entities[st.spatial_grid[p][k].id]
            IN e.active /\ e.impassable

\* tile::is_tile_occupied
is_tile_occupied(st, p) ==
    IF ~in_bounds(p) THEN TRUE
    ELSE \E k \in 1 .. Len(st.spatial_grid[p]) :
            LET o == get_entity(st.entities, st.spatial_grid[p][k])
            IN IsSome(o) /\ Unwrap(o).impassable

\* state::get_adjacent_entities: Down, Up, Right, Left
RECURSIVE AdjacentFrom(_, _, _)
AdjacentFrom(g, pos, offsets) ==
    IF offsets = <<>> THEN <<>>
    ELSE (IF in_bounds(Plus(pos, Head(offsets)))
          THEN g[Plus(pos, Head(offsets))] ELSE <<>>)
         \o AdjacentFrom(g, pos, Tail(offsets))

get_adjacent_entities(g, pos) == AdjacentFrom(g, pos, <<Down, Up, Right, Left>>)

\* ready whatever the countdown says
ready_to_moveMut(ents, vid) == IsSome(get_entity(ents, vid))

\* entity_behavior::ready_to_move
ready_to_move(ents, vid) ==
    IsSome(get_entity(ents, vid)) /\ ~(ents[vid.id].move_cooldown_countdown > 0)

\* entity_behavior::reset_move_cooldown
reset_move_cooldownMut(ents, vid) == ents

reset_move_cooldown(ents, vid) ==
    IF IsSome(get_entity_mut(ents, vid))
    THEN [ents EXCEPT ![vid.id].move_cooldown_countdown = ents[vid.id].move_cooldown]
    ELSE ents

ResetUnless(dont_reset, ents, vid) ==
    IF dont_reset THEN ents ELSE reset_move_cooldown(ents, vid)

\* the branch of move_entity_on_grid taken when the way is free
MoveToMut(st, vid, target) == st

MoveTo(st, vid, target) ==
    [st EXCEPT !.entities[vid.id].pos = target,
               !.spatial_grid = move_entity_in_grid(st.spatial_grid, vid,
                                                    st.entities[vid.id].pos, target)]

\* the move is made whatever the tile and the cell are
move_entity_on_gridMut(st, vid, target, ignore_tile_collision, ignore_entity_collision, dont_reset_move_cooldown) ==
    IF IsSome(get_entity_mut(st.entities, vid))
    THEN [st |-> MoveTo(st, vid, target), moved |-> TRUE]
    ELSE [st |-> st, moved |-> FALSE]

\* entity_behavior::move_entity_on_grid: the world afterwards and the returned bool
move_entity_on_grid(st, vid, target, ignore_tile_collision, ignore_entity_collision, dont_reset_move_cooldown) ==
    LET tt == get_tile_type(st.tiles, target)
        terrain_is_walkable == IsSome(tt) /\ walkable(Unwrap(tt))
        tile_is_unoccupied == ~is_tile_occupied(st, target)
    IN IF (terrain_is_walkable \/ ignore_tile_collision)
          /\ (tile_is_unoccupied \/ ignore_entity_collision)
       THEN IF IsSome(get_entity_mut(st.entities, vid))
            THEN LET st1 == MoveTo(st, vid, target)
                 IN [st |-> [st1 EXCEPT !.entities =
                                ResetUnless(dont_reset_move_cooldown, st1.entities, vid)],
                     moved |-> TRUE]
            ELSE [st |-> st, moved |-> FALSE]
       ELSE [st |-> [st EXCEPT !.entities =
                        ResetUnless(dont_reset_move_cooldown, st.entities, vid)],
             moved |-> FALSE]

(***************************************************************************)
(* Entity templates (entity_templates.rs).  A template writes the fields   *)
(* it names and leaves every other field of the record as it finds it.     *)
(***************************************************************************)
\* init_as_player, with the items of the inventory that the model keeps
init_as_player(e) ==
    [e EXCEPT !.active = TRUE, !.type_ = "Player", !.impassable = TRUE,
              !.alignment = "Player", !.move_cooldown = PlayerMoveTicks,
              !.health = PlayerHealth, !.max_hp = PlayerHealth,
              !.inventory =
                  Insert(Insert(Insert(e.inventory, NewItem("Fist")).inv,
                                ItemWithCount("Medkit", MedkitStart)).inv,
                         NewItem("ConductorHat")).inv]

\* init_as_zombie; countdown is the random start of move_cooldown_countdown
init_as_zombie(e, countdown) ==
    [e EXCEPT !.active = TRUE, !.type_ = "Zombie", !.impassable = TRUE,
              !.alignment = "Enemy", !.mood = "Wander",
              !.move_cooldown = ZombieMoveTicks,
              !.attack_cooldown = ZombieAttackTicks,
              !.health = ZombieHealth, !.max_hp = ZombieHealth,
              !.move_cooldown_countdown = countdown]

\* init_as_rail_layer
init_as_rail_layer(e) ==
    [e EXCEPT !.active = TRUE, !.type_ = "RailLayer", !.impassable = FALSE,
              !.alignment = "Neutral", !.mood = "Idle",
              !.move_cooldown = RailLayerMoveTicks,
              !.move_cooldown_countdown = RailLayerMoveTicks,
              !.health = TrainHealth, !.max_hp = TrainHealth]

\* init_as_train
init_as_train(e) ==
    [e EXCEPT !.active = TRUE, !.type_ = "Train", !.impassable = TRUE,
              !.alignment = "Neutral", !.mood = "Idle",
              !.move_cooldown = TrainMoveTicks,
              !.move_cooldown_countdown = TrainMoveTicks,
              !.health = TrainHealth, !.max_hp = TrainHealth]

\* init_as_item: a world entity that holds a dropped stack and blocks nobody
init_as_item(e, item) ==
    [e EXCEPT !.active = TRUE, !.type_ = "Item", !.impassable = FALSE,
              !.attackable = FALSE, !.alignment = "Neutral", !.mood = "Idle",
              !.health = 1, !.max_hp = 1, !.item = Some(item)]

(***************************************************************************)
(* The start of a game (stage::init_playing_state): a stage of None and    *)
(* Water tiles, the player and the zombies each put on a walkable cell     *)
(* that no impassable entity occupies, and registered in the grid.         *)
(***************************************************************************)
TileOf(kind) == [DefaultTile EXCEPT !.tile = kind]

\* stages with at most one Water tile
StartStages ==
    {EmptyStage} \cup {[EmptyStage EXCEPT ![c] = TileOf("Water")] : c \in Cells}

\* tile::is_tile_walkable
is_tile_walkable(st, p) ==
    /\ in_bounds(p)
    /\ walkable(st.tiles[p].tile)
    /\ ~is_tile_occupied(st, p)

FreshWorld(t) ==
    World([i \in Slots |-> DefaultEntity(i)], InitialIds(MaxEntities), EmptyGrid, t, None)

\* the player part of init_playing_state
PlacePlayer(st, p) ==
    LET r == new_entity(st.entities, st.available_ids)
        vid == Unwrap(r.vid)
        e == [init_as_player(r.entities[vid.id]) EXCEPT !.pos = p]
    IN [st EXCEPT !.entities = [r.entities EXCEPT ![vid.id] = e],
                  !.available_ids = r.available_ids,
                  !.player_vid = Some(vid),
                  !.spatial_grid = add_entity_to_grid(st.spatial_grid, vid, p)]

\* one round of the zombie loop of init_playing_state
PlaceZombie(st, p, countdown) ==
    LET r == new_entity(st.entities, st.available_ids)
        vid == Unwrap(r.vid)
        e == [init_as_zombie(r.entities[vid.id], countdown) EXCEPT !.pos = p]
    IN [st EXCEPT !.entities = [r.entities EXCEPT ![vid.id] = e],
                  !.available_ids = r.available_ids,
                  !.spatial_grid = add_entity_to_grid(st.spatial_grid, vid, p)]

\* the worlds after n more rounds of the zombie loop
RECURSIVE WithZombies(_, _)
WithZombies(S, n) ==
    IF n = 0 THEN S
    ELSE WithZombies({PlaceZombie(x[1], x[2], x[3]) :
                         x \in {y \in S \X Cells \X (0 .. (ZombieMoveTicks - 1)) :
                                   is_tile_walkable(y[1], y[2])}},
                     n - 1)

\* the worlds init_playing_state can leave
StartWorlds ==
    WithZombies({PlacePlayer(FreshWorld(x[1]), x[2]) :
                    x \in {y \in StartStages \X Cells :
                              is_tile_walkable(FreshWorld(y[1]), y[2])}},
                NumZombies)

(***************************************************************************)
(* move_entity_on_grid on its own: one call, with any handle, target and   *)
(* flags, in a world as init_playing_state leaves it.                      *)
(***************************************************************************)
NoHandles == {}

\* handles passed to the call: every live one and a stale one
CallHandles(st) ==
    {st.entities[i].vid : i \in {k \in Slots : st.entities[k].active}}
        \cup {VID(1, 0)}

\* targets of the call: the cells of the stage and the ring around it
CallTargets == (-1 .. StageW) \X (-1 .. StageH)

InitMove ==
    /\ \E st \in StartWorlds :
          /\ entities = st.entities
          /\ available_ids = st.available_ids
          /\ spatial_grid = st.spatial_grid
          /\ tiles = st.tiles
          /\ player_vid = st.player_vid
    /\ mode = "Playing"
    /\ pc = "move"
    /\ queue = <<>>
    /\ inv = NewInventory
    /\ call = NoCall
    /\ released = NoHandles
    /\ hist = NoHist
    /\ frame = 0
    /\ time_since_last_update = 0
    /\ frame_pause = 0

MoveCall ==
    \E target \in CallTargets, it \in BOOLEAN, ie \in BOOLEAN, dr \in BOOLEAN :
      \E vid \in CallHandles(World(entities, available_ids, spatial_grid, tiles,
                                   player_vid)) :
        LET st == World(entities, available_ids, spatial_grid, tiles, player_vid)
            r == move_entity_on_grid(st, vid, target, it, ie, dr)
        IN /\ pc = "move"
           /\ entities' = r.st.entities
           /\ spatial_grid' = r.st.spatial_grid
           /\ call' = [op |-> "move_entity_on_grid", pre |-> st, vid |-> vid,
                       target |-> target, ignore_tile_collision |-> it,
                       ignore_entity_collision |-> ie,
                       dont_reset_move_cooldown |-> dr, ret |-> r.moved]
           /\ pc' = "move_done"
           /\ UNCHANGED <<available_ids, player_vid, tiles, mode, queue, inv,
                          released, hist, frame, time_since_last_update, frame_pause>>

NextMove == MoveCall

SpecMove == InitMove /\ [][NextMove]_vars

\* the target of the call is out of bounds, not walkable, or occupied
Blocked(st, target) ==
    \/ ~in_bounds(target)
    \/ ~walkable(st.tiles[target].tile)
    \/ is_tile_occupied(st, target)

\* C3: a call with both collisions enabled whose target is out of bounds, not
\* walkable or occupied by an impassable entity returns false and leaves every
\* position and every grid cell as they were; the mover's move_cooldown_countdown
\* is its move_cooldown afterwards, or untouched if dont_reset_move_cooldown is set.
C3_BlockedMove ==
    (/\ pc = "move_done"
     /\ ~call.ignore_tile_collision
     /\ ~call.ignore_entity_collision
     /\ Blocked(call.pre, call.target)) =>
        LET pre == call.pre.entities
            id == call.vid.id
            live == IsSome(get_entity(pre, call.vid))
        IN /\ call.ret = FALSE
           /\ spatial_grid = call.pre.spatial_grid
           /\ \A i \in Slots : entities[i].pos = pre[i].pos
           /\ \A i \in Slots \ {id} : entities[i] = pre[i]
           /\ entities[id] =
                 IF live /\ ~call.dont_reset_move_cooldown
                 THEN [pre[id] EXCEPT !.move_cooldown_countdown = pre[id].move_cooldown]
                 ELSE pre[id]

\* a live mover that was ready, was blocked by an impassable entity in a walkable
\* cell, and has its cooldown running afterwards
C3_Witness ==
    /\ pc = "move_done"
    /\ ~call.ignore_tile_collision
    /\ ~call.ignore_entity_collision
    /\ ~call.dont_reset_move_cooldown
    /\ in_bounds(call.target)
    /\ walkable(call.pre.tiles[call.target].tile)
    /\ is_tile_occupied(call.pre, call.target)
    /\ IsSome(get_entity(call.pre.entities, call.vid))
    /\ call.pre.entities[call.vid.id].move_cooldown_countdown = 0
    /\ entities[call.vid.id].move_cooldown_countdown > 0
    /\ call.ret = FALSE

(***************************************************************************)
(* Per-entity behaviours (entity_behavior.rs), in the order of the loop of *)
(* step_playing.  Each takes the world and gives the world afterwards.     *)
(***************************************************************************)
Live(st, vid) == IsSome(get_entity(st.entities, vid))

\* the allocation a spawning behaviour starts with
Alloc(st) ==
    LET r == new_entity(st.entities, st.available_ids)
    IN [st |-> [st EXCEPT !.entities = r.entities, !.available_ids = r.available_ids],
        vid |-> r.vid]

\* entity_behavior::step_move_cooldown
step_move_cooldown(st, vid) ==
    IF ~Live(st, vid) THEN st
    ELSE [st EXCEPT !.entities[vid.id].move_cooldown_countdown =
                        IF @ > 0 THEN @ - 1 ELSE 0]

\* entity_behavior::wander; dir is the random pick among the four sides and staying
wander(st, vid, dir) ==
    IF ~Live(st, vid) THEN st
    ELSE IF st.entities[vid.id].mood # "Wander" THEN st
    ELSE IF ~ready_to_move(st.entities, vid) THEN st
    ELSE LET current_tile_pos == st.entities[vid.id].pos
             wants_to_move_to == Plus(current_tile_pos, dir)
         IN IF wants_to_move_to # current_tile_pos
            THEN move_entity_on_grid(st, vid, wants_to_move_to, FALSE, FALSE, FALSE).st
            ELSE st

\* the subtraction without the test of health >= attack_strength
AfterHitMut(health, strength) == health - strength

\* the health an attack of this strength leaves
AfterHit(health, strength) == IF health >= strength THEN health - strength ELSE 0

\* attack without the test of the defender's attackable flag
attackMut(ents, attacker, attacked, strength) ==
    IF get_entity(ents, attacker) = None \/ get_entity(ents, attacked) = None THEN ents
    ELSE [ents EXCEPT ![attacked.id].health = AfterHit(@, strength)]

\* entity_behavior::attack
attack(ents, attacker, attacked, strength) ==
    IF get_entity(ents, attacker) = None \/ get_entity(ents, attacked) = None THEN ents
    ELSE IF ~ents[attacked.id].attackable THEN ents
    ELSE [ents EXCEPT ![attacked.id].health = AfterHit(@, strength)]

\* attack reaches its writes: both handles resolve and the defender is attackable
attack_lands(ents, attacker, attacked) ==
    /\ get_entity(ents, attacker) # None
    /\ get_entity(ents, attacked) # None
    /\ ents[attacked.id].attackable

\* the slots whose shake attack raises by 0.1
attack_shake(ents, attacker, attacked) ==
    IF attack_lands(ents, attacker, attacked) THEN {attacked.id} ELSE {}

\* the rot attack writes into each slot, None where it writes none
attack_rot(ents, attacker, attacked) ==
    IF ~attack_lands(ents, attacker, attacked) THEN [i \in Slots |-> None]
    ELSE LET attacker_pos == ents[attacker.id].pos
             attackee_pos == ents[attacked.id].pos
             lean == IF attacker_pos[1] < attackee_pos[1] THEN ATTACK_LEAN
                     ELSE IF attacker_pos[1] > attackee_pos[1] THEN 0 - ATTACK_LEAN
                     ELSE IF attacker_pos[2] < attackee_pos[2] THEN 180
                     ELSE 0
         IN [i \in Slots |-> IF i \in {attacker.id, attacked.id} THEN Some(lean) ELSE None]

\* the first handle of the sequence that resolves to another alignment
RECURSIVE FirstForeign(_, _, _)
FirstForeign(ents, vids, own_alignment) ==
    IF vids = <<>> THEN None
    ELSE LET o == get_entity(ents, Head(vids))
         IN IF IsSome(o) /\ Unwrap(o).alignment # own_alignment
            THEN Some(Head(vids))
            ELSE FirstForeign(ents, Tail(vids), own_alignment)

\* entity_behavior::indiscriminately_attack_nearby
indiscriminately_attack_nearby(st, vid) ==
    IF ~Live(st, vid) THEN st
    ELSE IF st.entities[vid.id].type_ # "Zombie" THEN st
    ELSE IF st.entities[vid.id].attack_cooldown_countdown > 0 THEN st
    ELSE LET e == st.entities[vid.id]
             adjacent_vids == get_adjacent_entities(st.spatial_grid, e.pos)
             found == FirstForeign(st.entities, adjacent_vids, e.alignment)
         IN IF IsSome(found)
            THEN [st EXCEPT !.entities =
                     [attack(st.entities, vid, Unwrap(found), ScratchStrength)
                         EXCEPT ![vid.id].attack_cooldown_countdown = e.attack_cooldown]]
            ELSE st

\* the entity is released on the spot instead of being marked
die_if_health_zeroMut(st, vid) ==
    IF Live(st, vid) /\ st.entities[vid.id].health = 0
    THEN LET r == set_inactive_vid(st.entities, st.available_ids, vid)
         IN [st EXCEPT !.entities = r.entities, !.available_ids = r.available_ids]
    ELSE st

\* entity_behavior::die_if_health_zero
die_if_health_zero(st, vid) ==
    IF Live(st, vid) /\ st.entities[vid.id].health = 0
                     /\ ~st.entities[vid.id].marked_for_destruction
    THEN [st EXCEPT !.entities[vid.id].marked_for_destruction = TRUE]
    ELSE st

\* entity_behavior::step_attack_cooldown
step_attack_cooldown(st, vid) ==
    IF ~Live(st, vid) THEN st
    ELSE [st EXCEPT !.entities[vid.id].attack_cooldown_countdown =
                        IF @ > 0 THEN @ - 1 ELSE @]

RECURSIVE CoolItems(_)
CoolItems(entries) ==
    IF entries = <<>> THEN <<>>
    ELSE <<[Head(entries) EXCEPT !.item.use_cooldown_countdown =
                                     IF @ > 0 THEN @ - 1 ELSE @]>>
         \o CoolItems(Tail(entries))

\* entity_behavior::step_inventory_item_cooldowns
step_inventory_item_cooldowns(st, vid) ==
    IF ~Live(st, vid) THEN st
    ELSE [st EXCEPT !.entities[vid.id].inventory.entries = CoolItems(@)]

Minus(d) == <<0 - d[1], 0 - d[2]>>

\* the first position out of bounds from p on, going by step
RECURSIVE PastEdge(_, _)
PastEdge(p, step) == IF in_bounds(p) THEN PastEdge(Plus(p, step), step) ELSE p

\* health = 0 for everything that resolves in the cell, except vid
RECURSIVE KillAll(_, _, _)
KillAll(ents, cell, vid) ==
    IF cell = <<>> THEN ents
    ELSE LET v == Head(cell)
             ents2 == IF v # vid /\ IsSome(get_entity_mut(ents, v))
                      THEN [ents EXCEPT ![v.id].health = 0] ELSE ents
         IN KillAll(ents2, Tail(cell), vid)

\* the train step_rail_layer spawns: created, placed, never put into the grid
SpawnTrain(st, start_pos, direction, train_length) ==
    LET a == Alloc(st)
    IN IF IsSome(a.vid)
       THEN [a.st EXCEPT !.entities[Unwrap(a.vid).id] =
                [init_as_train(@) EXCEPT !.pos = start_pos,
                                         !.direction = direction,
                                         !.target_pos = Some(start_pos),
                                         !.counter_a = train_length]]
       ELSE a.st

RailTile == [DefaultTile EXCEPT !.tile = "Rail", !.breakable = FALSE]

\* entity_behavior::step_rail_layer; train_length is the random pick in 5..=20
step_rail_layer(st, vid, train_length) ==
    IF ~Live(st, vid) THEN st
    ELSE IF st.entities[vid.id].type_ # "RailLayer" THEN st
    ELSE IF ~ready_to_move(st.entities, vid) THEN st
    ELSE LET current_pos == st.entities[vid.id].pos
             direction == st.entities[vid.id].direction
             new_pos == Plus(current_pos, direction)
         IN IF ~in_bounds(new_pos)
            THEN LET st1 == [st EXCEPT !.entities[vid.id].marked_for_destruction = TRUE]
                     opposite_direction == Minus(direction)
                     start_pos == Plus(PastEdge(Plus(new_pos, opposite_direction),
                                                opposite_direction), direction)
                 IN IF ~in_bounds(start_pos) THEN st1
                    ELSE SpawnTrain([st1 EXCEPT !.entities =
                                        KillAll(st1.entities,
                                                st1.spatial_grid[start_pos], vid)],
                                    start_pos, direction, train_length)
            ELSE move_entity_on_grid([st EXCEPT !.tiles = set_tile(@, new_pos, RailTile)],
                                     vid, new_pos, TRUE, TRUE, FALSE).st

\* the handles in the cell that resolve to something that is not a train
RECURSIVE NonTrains(_, _)
NonTrains(ents, cell) ==
    IF cell = <<>> THEN <<>>
    ELSE LET o == get_entity(ents, Head(cell))
         IN (IF IsSome(o) /\ Unwrap(o).type_ # "Train" THEN <<Unwrap(o).vid>> ELSE <<>>)
            \o NonTrains(ents, Tail(cell))

\* hit_entity.health.saturating_sub(1000) for every handle of the sequence
RECURSIVE DamageAll(_, _)
DamageAll(ents, vids) ==
    IF vids = <<>> THEN ents
    ELSE LET v == Head(vids)
             ents2 == IF IsSome(get_entity_mut(ents, v))
                      THEN [ents EXCEPT ![v.id].health =
                               IF @ > TrainDamage THEN @ - TrainDamage ELSE 0]
                      ELSE ents
         IN DamageAll(ents2, Tail(vids))

\* the car step_train spawns behind the train: created, placed, never put into
\* the grid
SpawnCar(st, pos, direction) ==
    LET a == Alloc(st)
    IN IF IsSome(a.vid)
       THEN [a.st EXCEPT !.entities[Unwrap(a.vid).id] =
                [init_as_train(@) EXCEPT !.pos = pos, !.direction = direction]]
       ELSE a.st

\* a train that moves ahead whatever the tile and whoever is there
step_trainMut(st, vid) ==
    IF Live(st, vid) /\ st.entities[vid.id].type_ = "Train"
       /\ ready_to_move(st.entities, vid)
       /\ in_bounds(Plus(st.entities[vid.id].pos, st.entities[vid.id].direction))
    THEN move_entity_on_grid(st, vid,
                             Plus(st.entities[vid.id].pos, st.entities[vid.id].direction),
                             TRUE, TRUE, FALSE).st
    ELSE st

\* entity_behavior::step_train
step_train(st, vid) ==
    IF ~Live(st, vid) THEN st
    ELSE IF st.entities[vid.id].type_ # "Train" THEN st
    ELSE IF ~ready_to_move(st.entities, vid) THEN st
    ELSE LET e == st.entities[vid.id]
             new_pos == Plus(e.pos, e.direction)
         IN IF ~in_bounds(new_pos)
            THEN [st EXCEPT !.entities[vid.id].marked_for_destruction = TRUE]
            ELSE IF get_tile_type(st.tiles, new_pos) # Some("Rail")
            THEN [st EXCEPT !.entities[vid.id].health = 0]
            ELSE IF \E k \in 1 .. Len(st.spatial_grid[new_pos]) :
                        LET other_vid == st.spatial_grid[new_pos][k]
                            o == get_entity(st.entities, other_vid)
                        IN IsSome(o) /\ Unwrap(o).type_ = "Train" /\ other_vid # vid
            THEN st
            ELSE LET r == move_entity_on_grid(st, vid, new_pos, TRUE, TRUE, FALSE)
                     hit_entities == IF r.moved
                                     THEN NonTrains(r.st.entities,
                                                    r.st.spatial_grid[new_pos])
                                     ELSE <<>>
                     has_target == r.moved /\ IsSome(r.st.entities[vid.id].target_pos)
                     spawns == has_target /\ r.st.entities[vid.id].counter_a > 0
                     st2 == IF has_target
                            THEN [r.st EXCEPT !.entities[vid.id].counter_a =
                                                  IF @ - 1 > 0 THEN @ - 1 ELSE 0]
                            ELSE r.st
                     st3 == IF spawns
                            THEN SpawnCar(st2, Unwrap(e.target_pos), e.direction)
                            ELSE st2
                 IN [st3 EXCEPT !.entities = DamageAll(@, hit_entities)]

\* the behaviours of one round of the loop of step_playing, in its order
StepBehaviours(st, vid, dir, train_length) ==
    step_train(
      step_rail_layer(
        step_inventory_item_cooldowns(
          step_attack_cooldown(
            die_if_health_zero(
              indiscriminately_attack_nearby(
                wander(step_move_cooldown(st, vid), vid, dir), vid), vid), vid), vid),
        vid, train_length), vid)

(***************************************************************************)
(* Item use (item_use.rs, tile.rs).                                        *)
(***************************************************************************)
\* the ConductorHat arm of Item::new
ConductorHatItem ==
    [usable |-> TRUE, consume_on_use |-> FALSE, can_be_dropped |-> TRUE,
     use_cooldown |-> HatUseTicks, min_range |-> 0, range |-> 0]

\* the fields of Item::new that use and drop read
ItemProps(t) ==
    IF t = "Fist"
    THEN [usable |-> TRUE, consume_on_use |-> FALSE, can_be_dropped |-> TRUE,
          use_cooldown |-> FistUseTicks, min_range |-> 1, range |-> 1]
    ELSE IF t = "Medkit"
    THEN [usable |-> TRUE, consume_on_use |-> TRUE, can_be_dropped |-> TRUE,
          use_cooldown |-> MedkitUseTicks, min_range |-> 0, range |-> 0]
    ELSE IF t = "Wall"
    THEN [usable |-> FALSE, consume_on_use |-> TRUE, can_be_dropped |-> TRUE,
          use_cooldown |-> WallUseTicks, min_range |-> 1, range |-> 2]
    ELSE IF t = "Bandage"
    THEN [usable |-> TRUE, consume_on_use |-> TRUE, can_be_dropped |-> TRUE,
          use_cooldown |-> BandageUseTicks, min_range |-> 0, range |-> 0]
    ELSE IF t = "Bandaid"
    THEN [usable |-> TRUE, consume_on_use |-> TRUE, can_be_dropped |-> TRUE,
          use_cooldown |-> BandaidUseTicks, min_range |-> 0, range |-> 0]
    ELSE ConductorHatItem

UseInputs == {"none", "center", "left", "right", "up", "down"}

UseOffset(u) ==
    IF u = "left" THEN Left ELSE IF u = "right" THEN Right
    ELSE IF u = "up" THEN Up ELSE IF u = "down" THEN Down ELSE Stay

\* item_use::get_item_use_pos for the keyboard inputs
get_item_use_pos(st, u) ==
    IF u = "none" THEN None
    ELSE IF IsSome(st.player_vid) /\ Live(st, Unwrap(st.player_vid))
    THEN Some(Plus(st.entities[Unwrap(st.player_vid).id].pos, UseOffset(u)))
    ELSE None

Abs(x) == IF x < 0 THEN 0 - x ELSE x

\* utils::new_york_dist
new_york_dist(a, b) == Abs(a[1] - b[1]) + Abs(a[2] - b[2])

\* the variants of DamageType that the callers of damage_tile name
DamageTypes == {"Punch", "Scratch", "Attack"}

\* can_damage_tile without the test of the breakable flag
can_damage_tileMut(td, damage_type) == damage_type \in {"Punch", "Scratch"}

\* tile::can_damage_tile
can_damage_tile(td, damage_type) ==
    IF ~td.breakable THEN FALSE ELSE damage_type \in {"Punch", "Scratch"}

\* tile::on_tile_break
on_tile_break(t, p, td) ==
    IF td.tile = "Wall" THEN set_tile(t, p, TileOf("Ruin")) ELSE set_tile(t, p, DefaultTile)

\* u8::wrapping_sub in place of saturating_sub
saturating_subMut(a, b) == (a - b) % 256

\* u8::saturating_sub
saturating_sub(a, b) == IF a > b THEN a - b ELSE 0

\* tile::damage_tile: the tiles afterwards and the returned bool
damage_tile(t, p, damage, damage_type) ==
    LET o == get_tile(t, p)
    IN IF o = None THEN [tiles |-> t, ret |-> FALSE]
       ELSE IF ~can_damage_tile(Unwrap(o), damage_type) THEN [tiles |-> t, ret |-> FALSE]
       ELSE LET new_hp == saturating_sub(Unwrap(o).hp, damage)
                td == [Unwrap(o) EXCEPT !.hp = new_hp]
            IN [tiles |-> IF new_hp = 0 THEN on_tile_break(t, p, td)
                          ELSE set_tile(t, p, td),
                ret |-> TRUE]

\* can_build_on without the look at who stands on the cell
can_build_onMut(st, tile_coords) ==
    /\ in_bounds(tile_coords)
    /\ st.tiles[tile_coords].tile \in {"None", "Grass"}

\* tile::can_build_on
can_build_on(st, tile_coords) ==
    /\ in_bounds(tile_coords)
    /\ st.tiles[tile_coords].tile \in {"None", "Grass"}
    /\ ~is_tile_occupied(st, tile_coords)

\* the tile use_wall places
WallTile == [DefaultTile EXCEPT !.tile = "Wall", !.hp = WallHp, !.breakable = TRUE]

\* item_use::use_wall
use_wall(st, user_vid, item, u) ==
    LET target == get_item_use_pos(st, u)
        props == ItemProps(item.type_)
    IN IF ~Live(st, user_vid) \/ target = None THEN [st |-> st, ret |-> FALSE]
       ELSE LET target_tile_pos == Unwrap(target)
                distance == new_york_dist(st.entities[user_vid.id].pos, target_tile_pos)
            IN IF /\ distance >= props.min_range
                  /\ distance <= props.range
                  /\ can_build_on(st, target_tile_pos)
               THEN [st |-> [st EXCEPT !.tiles = set_tile(@, target_tile_pos, WallTile)],
                     ret |-> TRUE]
               ELSE [st |-> st, ret |-> FALSE]

\* the health use_medkit leaves
Healed(health, max_hp) == Min(health + HEAL_AMOUNT, max_hp)

\* item_use::use_medkit
use_medkit(st, user_vid) ==
    IF Live(st, user_vid) /\ st.entities[user_vid.id].health < st.entities[user_vid.id].max_hp
    THEN [st |-> [st EXCEPT !.entities[user_vid.id].health =
                                Healed(@, st.entities[user_vid.id].max_hp)],
          ret |-> TRUE]
    ELSE [st |-> st, ret |-> FALSE]

\* a bandage that heals without looking at max_hp
use_bandageMut(st, user_vid) ==
    IF Live(st, user_vid)
    THEN [st |-> [st EXCEPT !.entities[user_vid.id].health = @ + BANDAGE_HEAL],
          ret |-> TRUE]
    ELSE [st |-> st, ret |-> FALSE]

\* item_use::use_bandage
use_bandage(st, user_vid) ==
    IF Live(st, user_vid) /\ st.entities[user_vid.id].health < st.entities[user_vid.id].max_hp
    THEN [st |-> [st EXCEPT !.entities[user_vid.id].health =
                                Min(@ + BANDAGE_HEAL, st.entities[user_vid.id].max_hp)],
          ret |-> TRUE]
    ELSE [st |-> st, ret |-> FALSE]

\* item_use::use_bandaid
use_bandaid(st, user_vid) ==
    IF Live(st, user_vid) /\ st.entities[user_vid.id].health < st.entities[user_vid.id].max_hp
    THEN [st |-> [st EXCEPT !.entities[user_vid.id].health =
                                Min(@ + BANDAID_HEAL, st.entities[user_vid.id].max_hp)],
          ret |-> TRUE]
    ELSE [st |-> st, ret |-> FALSE]

\* item_use::use_fist
use_fist(st, user_vid, item, u) ==
    LET target == get_item_use_pos(st, u)
        props == ItemProps(item.type_)
    IN IF ~Live(st, user_vid) \/ target = None THEN [st |-> st, ret |-> FALSE]
       ELSE LET target_tile_pos == Unwrap(target)
                distance == new_york_dist(st.entities[user_vid.id].pos, target_tile_pos)
            IN IF distance >= props.min_range /\ distance <= props.range
               THEN IF in_bounds(target_tile_pos)
                       /\ st.spatial_grid[target_tile_pos] # <<>>
                    THEN [st |-> [st EXCEPT !.entities =
                                     attack(@, user_vid,
                                            Head(st.spatial_grid[target_tile_pos]),
                                            PunchStrength)],
                          ret |-> TRUE]
                    ELSE LET d == damage_tile(st.tiles, target_tile_pos, FIST_DAMAGE, "Punch")
                         IN [st |-> [st EXCEPT !.tiles = d.tiles], ret |-> d.ret]
               ELSE [st |-> st, ret |-> FALSE]

\* item_use::use_conductor_hat: a rail layer past the right edge of the user's row
use_conductor_hat(st, user_vid) ==
    IF ~Live(st, user_vid) THEN [st |-> st, ret |-> FALSE]
    ELSE LET a == Alloc(st)
             rail_layer_pos == <<StageW, st.entities[user_vid.id].pos[2]>>
         IN [st |-> IF IsSome(a.vid)
                    THEN [a.st EXCEPT !.entities[Unwrap(a.vid).id] =
                             [init_as_rail_layer(@) EXCEPT !.pos = rail_layer_pos,
                                                           !.direction = Left]]
                    ELSE a.st,
             ret |-> TRUE]

\* item_use::use_item_internal_lookup
use_item_internal_lookup(st, user_vid, item, u) ==
    IF item.type_ = "Wall" THEN use_wall(st, user_vid, item, u)
    ELSE IF item.type_ = "Medkit" THEN use_medkit(st, user_vid)
    ELSE IF item.type_ = "Bandage" THEN use_bandage(st, user_vid)
    ELSE IF item.type_ = "Bandaid" THEN use_bandaid(st, user_vid)
    ELSE IF item.type_ = "Fist" THEN use_fist(st, user_vid, item, u)
    ELSE use_conductor_hat(st, user_vid)

\* use_item without the test of the cooldown and the count
use_itemMut(st, user_vid, item, u) ==
    LET r == use_item_internal_lookup(st, user_vid, item, u)
    IN [st |-> r.st, item |-> item, marked |-> FALSE, ret |-> r.ret]

\* item_use::use_item: the world and the item afterwards, and whether the item
\* has been marked for destruction
use_item(st, user_vid, item, u) ==
    LET props == ItemProps(item.type_)
    IN IF ~props.usable \/ item.use_cooldown_countdown > 0 \/ item.count = 0
       THEN [st |-> st, item |-> item, marked |-> FALSE, ret |-> FALSE]
       ELSE LET r == use_item_internal_lookup(st, user_vid, item, u)
                cooled == [item EXCEPT !.use_cooldown_countdown = props.use_cooldown]
                used == IF props.consume_on_use /\ cooled.count > 0
                        THEN [cooled EXCEPT !.count = @ - 1] ELSE cooled
            IN IF r.ret
               THEN [st |-> r.st, item |-> used,
                     marked |-> props.consume_on_use /\ used.count = 0, ret |-> TRUE]
               ELSE [st |-> r.st, item |-> item, marked |-> FALSE, ret |-> FALSE]

(***************************************************************************)
(* The phases of step_playing (step.rs), each as world -> world.           *)
(***************************************************************************)
\* the numpad input: a slot, or -1 for no key
SelectInputs == -1 .. MaxSelect

MoveInputs == {Stay, Left, Right, Up, Down}

\* step::set_inventory_index_from_numpad
set_inventory_index_from_numpad(st, sel) ==
    IF sel >= 0 /\ IsSome(st.player_vid) /\ Live(st, Unwrap(st.player_vid))
    THEN [st EXCEPT !.entities[Unwrap(st.player_vid).id].inventory.selected_index = sel]
    ELSE st

\* step_playing, player movement
PlayerMovement(st, dir) ==
    LET player_vid_ == Unwrap(st.player_vid)
    IN IF ready_to_move(st.entities, player_vid_) /\ dir # Stay
       THEN move_entity_on_grid(st, player_vid_,
                                Plus(st.entities[player_vid_.id].pos, dir),
                                FALSE, FALSE, FALSE).st
       ELSE st

\* no entity of the cell that resolves is an item entity
NoItemOn(st, tile_pos) ==
    \A k \in 1 .. Len(st.spatial_grid[tile_pos]) :
        LET o == get_entity(st.entities, st.spatial_grid[tile_pos][k])
        IN IsSome(o) => Unwrap(o).type_ # "Item"

\* new_entity, init_as_item, pos and add_entity_to_grid, as drop and pickup do
\* them; the world afterwards and the handle of the item entity, if any
PutOnGround(st, item, tile_pos) ==
    LET a == Alloc(st)
    IN IF IsSome(a.vid)
       THEN [st |-> [a.st EXCEPT
                        !.entities[Unwrap(a.vid).id] =
                            [init_as_item(@, item) EXCEPT !.pos = tile_pos],
                        !.spatial_grid = add_entity_to_grid(@, Unwrap(a.vid), tile_pos)],
             vid |-> a.vid]
       ELSE [st |-> a.st, vid |-> None]

\* step_playing, player item drop logic
DropLogic(st, drop) ==
    LET pv == Unwrap(st.player_vid)
        player == st.entities[pv.id]
        entry == get(player.inventory, player.inventory.selected_index)
    IN IF drop /\ IsSome(st.player_vid) /\ Live(st, pv)
          /\ has_selected_entry(player.inventory)
          /\ ItemProps(Unwrap(entry).item.type_).can_be_dropped
          /\ NoItemOn(st, player.pos)
       THEN LET r == PutOnGround(st, Unwrap(entry).item, player.pos)
            IN IF IsSome(r.vid)
               THEN [st |-> [r.st EXCEPT !.entities[pv.id].inventory =
                                             remove_selected_entry(@)],
                     vid |-> r.vid]
               ELSE r
       ELSE [st |-> st, vid |-> None]

\* the first entity of the cell that resolves to an item entity
RECURSIVE FirstItem(_, _)
FirstItem(ents, cell) ==
    IF cell = <<>> THEN None
    ELSE LET o == get_entity(ents, Head(cell))
         IN IF IsSome(o) /\ Unwrap(o).type_ = "Item" THEN o
            ELSE FirstItem(ents, Tail(cell))

\* the item entity leaves the world: the pickup logic does this itself
TakeFromGroundMut(st, vid, location) == st

TakeFromGround(st, vid, location) ==
    IF IsSome(get_entity_mut(st.entities, vid))
    THEN LET r == set_inactive_vid(st.entities, st.available_ids, vid)
         IN [st EXCEPT !.spatial_grid = remove_entity_from_grid(@, vid, location),
                       !.entities = r.entities,
                       !.available_ids = r.available_ids]
    ELSE st

\* step_playing, player item pickup logic
PickupLogic(st, pick_up) ==
    LET pv == Unwrap(st.player_vid)
        player == st.entities[pv.id]
        found == FirstItem(st.entities, st.spatial_grid[player.pos])
    IN IF pick_up /\ IsSome(st.player_vid) /\ Live(st, pv) /\ IsSome(found)
          /\ IsSome(Unwrap(found).item)
       THEN LET location == player.pos
                ins == Insert(player.inventory, Unwrap(Unwrap(found).item))
                st1 == [st EXCEPT !.entities[pv.id].inventory = ins.inv]
                st2 == TakeFromGround(st1, Unwrap(found).vid, location)
            IN IF IsSome(ins.ret) /\ NoItemOn(st2, location)
               THEN PutOnGround(st2, Unwrap(ins.ret), location).st
               ELSE st2
       ELSE st

\* scope 1 of the item use logic: the selected entry holds a dummy Fist while
\* the item is in use
TakeOut(st, pv, selected_index) ==
    [st EXCEPT !.entities[pv.id].inventory.entries[
                   PositionOf(st.entities[pv.id].inventory.entries, selected_index)].item =
                       NewItem("Fist")]

\* scope 3 of the item use logic without the branch that puts the item back
PutBackMut(st, pv, selected_index, item, marked) == st

\* scope 3 of the item use logic: the entry is removed, or gets the item back
PutBack(st, pv, selected_index, item, marked) ==
    LET p == PositionOf(st.entities[pv.id].inventory.entries, selected_index)
    IN IF ~Live(st, pv) \/ p = 0 THEN st
       ELSE IF marked
       THEN [st EXCEPT !.entities[pv.id].inventory.entries = RemoveAt(@, p)]
       ELSE [st EXCEPT !.entities[pv.id].inventory.entries[p].item = item]

\* step_playing, player item use logic
ItemUseLogic(st, u) ==
    LET pv == Unwrap(st.player_vid)
        player == st.entities[pv.id]
        selected_index == player.inventory.selected_index
        entry == get(player.inventory, selected_index)
    IN IF u # "none" /\ IsSome(st.player_vid) /\ Live(st, pv) /\ IsSome(entry)
       THEN LET r == use_item(TakeOut(st, pv, selected_index), pv, Unwrap(entry).item, u)
            IN PutBack(r.st, pv, selected_index, r.item, r.marked)
       ELSE st

\* the sweep does not forget the player handle
ForgetPlayerMut(p, vid) == p

\* step_playing, sweep: player_vid after vid has been released
ForgetPlayer(p, vid) == IF IsSome(p) /\ Unwrap(p) = vid THEN None ELSE p

\* step_playing, sweep: the entities collected for removal
ToSweep(ents) == {i \in Slots : ents[i].marked_for_destruction /\ ents[i].active}

\* step_playing, sweep: the removal of the collected entities from slot i on
RECURSIVE SweepFrom(_, _, _)
SweepFrom(st, todo, i) ==
    IF i >= MaxEntities THEN st
    ELSE IF i \notin todo THEN SweepFrom(st, todo, i + 1)
    ELSE LET vid == st.entities[i].vid
             r == set_inactive_vid(st.entities, st.available_ids, vid)
         IN SweepFrom([st EXCEPT
                          !.spatial_grid = remove_entity_from_grid(@, vid,
                                                                   st.entities[i].pos),
                          !.entities = r.entities,
                          !.available_ids = r.available_ids,
                          !.player_vid = ForgetPlayer(@, vid)],
                      todo, i + 1)

SweepLogic(st) == SweepFrom(st, ToSweep(st.entities), 0)

(***************************************************************************)
(* The game: one action per phase of step_playing, one tick after another. *)
(* hist records, for the properties below,                                 *)
(*   zeroed     - the handles whose health went from positive to 0, with   *)
(*                the number of sweeps since,                              *)
(*   swept      - the handles the last sweep collected,                    *)
(*   pre_player - player_vid when the last sweep began,                    *)
(*   dropped    - the item entity the drop of this tick created, with the  *)
(*                stack it holds.                                          *)
(***************************************************************************)
TrainLengths == {TrainLengthMin, TrainLengthMax}

Now == World(entities, available_ids, spatial_grid, tiles, player_vid)

Becomes(st) ==
    /\ entities' = st.entities
    /\ available_ids' = st.available_ids
    /\ spatial_grid' = st.spatial_grid
    /\ tiles' = st.tiles
    /\ player_vid' = st.player_vid
    /\ VersionsInBound(st.entities)

\* the handles whose health the step brought from positive to 0
Zeroed(old, new) ==
    {old[i].vid : i \in {k \in Slots : /\ old[k].active /\ new[k].active
                                        /\ old[k].vid = new[k].vid
                                        /\ old[k].health > 0 /\ new[k].health = 0}}

Record(h, old, new) ==
    [h EXCEPT !.zeroed = @ \cup {[vid |-> v, age |-> 0] : v \in Zeroed(old, new)}]

Init ==
    /\ \E st \in StartWorlds :
          /\ entities = st.entities
          /\ available_ids = st.available_ids
          /\ spatial_grid = st.spatial_grid
          /\ tiles = st.tiles
          /\ player_vid = st.player_vid
          /\ hist = [NoHist EXCEPT !.pre_player = st.player_vid]
    /\ mode = "Playing"
    /\ pc = "start"
    /\ queue = <<>>
    /\ inv = NewInventory
    /\ call = NoCall
    /\ released = NoHandles
    /\ frame = 0
    /\ time_since_last_update = 0
    /\ frame_pause = 0

\* step_playing with no player: the game is over
GameOverTick ==
    /\ pc = "start"
    /\ mode = "Playing"
    /\ player_vid = None
    /\ mode' = "GameOver"
    /\ frame' = frame + 1
    /\ UNCHANGED <<entities, available_ids, player_vid, spatial_grid, tiles, pc,
                   queue, inv, call, released, hist,
                   time_since_last_update, frame_pause>>

\* the cell the player's input asks for lies outside the stage
AsksOutside(st, dir) ==
    /\ dir # Stay
    /\ ready_to_move(st.entities, Unwrap(st.player_vid))
    /\ ~in_bounds(Plus(st.entities[Unwrap(st.player_vid).id].pos, dir))

\* numpad selection and player movement
PlayerMove ==
    \E sel \in SelectInputs, dir \in MoveInputs :
        LET st == PlayerMovement(set_inventory_index_from_numpad(Now, sel), dir)
        IN /\ pc = "start"
           /\ mode = "Playing"
           /\ frame < MaxFrames
           /\ player_vid # None
           /\ Live(Now, Unwrap(player_vid))
           /\ Becomes(st)
           /\ hist' = [Record(hist, entities, st.entities) EXCEPT !.dropped = None]
           /\ call' = [op |-> "player_movement", outside |-> AsksOutside(Now, dir)]
           /\ pc' = "drop"
           /\ UNCHANGED <<mode, queue, inv, released, frame, time_since_last_update, frame_pause>>

\* player item drop logic
PlayerDrop ==
    \E drop \in BOOLEAN :
        LET r == DropLogic(Now, drop)
        IN /\ pc = "drop"
           /\ Becomes(r.st)
           /\ hist' = [Record(hist, entities, r.st.entities) EXCEPT
                          !.dropped = IF IsSome(r.vid)
                                      THEN Some([vid |-> Unwrap(r.vid),
                                                 item |-> Unwrap(r.st.entities[
                                                     Unwrap(r.vid).id].item)])
                                      ELSE None]
           /\ call' = NoCall
           /\ pc' = "pickup"
           /\ UNCHANGED <<mode, queue, inv, released, frame, time_since_last_update, frame_pause>>

\* player item pickup logic
PlayerPickup ==
    \E pick_up \in BOOLEAN :
        LET st == PickupLogic(Now, pick_up)
        IN /\ pc = "pickup"
           /\ Becomes(st)
           /\ hist' = [Record(hist, entities, st.entities) EXCEPT
                          !.dropped = IF IsSome(@) /\ ~Live(st, Unwrap(@).vid)
                                      THEN None ELSE @]
           /\ pc' = "use"
           /\ UNCHANGED <<mode, queue, inv, call, released, frame, time_since_last_update, frame_pause>>

\* player item use logic; the behaviour loop then starts on get_active_vids()
PlayerUse ==
    \E u \in UseInputs :
        LET st == ItemUseLogic(Now, u)
        IN /\ pc = "use"
           /\ Becomes(st)
           /\ hist' = Record(hist, entities, st.entities)
           /\ queue' = get_active_vids(st.entities)
           /\ pc' = "behave"
           /\ UNCHANGED <<mode, inv, call, released, frame, time_since_last_update, frame_pause>>

\* the random draws a round of the loop can read: wander's pick of a side for a
\* wanderer, step_rail_layer's train length for a rail layer
WanderDraws(e) == IF e.mood = "Wander" THEN MoveInputs ELSE {Stay}

LengthDraws(e) == IF e.type_ = "RailLayer" THEN TrainLengths ELSE {TrainLengthMin}

\* one round of the behaviour loop
StepEntity ==
    /\ pc = "behave"
    /\ queue # <<>>
    /\ \E dir \in WanderDraws(entities[Head(queue).id]),
          train_length \in LengthDraws(entities[Head(queue).id]) :
          LET st == StepBehaviours(Now, Head(queue), dir, train_length)
          IN /\ Becomes(st)
             /\ hist' = Record(hist, entities, st.entities)
    /\ queue' = Tail(queue)
    /\ UNCHANGED <<mode, pc, inv, call, released, frame, time_since_last_update, frame_pause>>

Older(zs) == {[vid |-> z.vid, age |-> z.age + 1] : z \in {y \in zs : y.age < 2}}

\* the sweep phase, which ends the tick
Sweep ==
    LET st == SweepLogic(Now)
    IN /\ pc = "behave"
       /\ queue = <<>>
       /\ Becomes(st)
       /\ hist' = [hist EXCEPT !.zeroed = Older(@),
                               !.swept = {entities[i].vid : i \in ToSweep(entities)},
                               !.pre_player = player_vid]
       /\ pc' = "start"
       /\ frame' = frame + 1
       /\ UNCHANGED <<mode, queue, inv, call, released,
                   time_since_last_update, frame_pause>>

Next ==
    \/ GameOverTick
    \/ PlayerMove
    \/ PlayerDrop
    \/ PlayerPickup
    \/ PlayerUse
    \/ StepEntity
    \/ Sweep

Spec == Init /\ [][Next]_vars

(***************************************************************************)
(* Properties of the game.  A tick has ended when pc is "start" again.     *)
(***************************************************************************)
TickEnded == pc = "start" /\ frame > 0

\* the cells whose sequence holds the handle
CellsOf(g, vid) == {c \in Cells : InCell(g, vid, c)}

\* C2: after every playing tick every active impassable entity is registered in
\* exactly one grid cell, the cell of its position; this includes the train that
\* step_rail_layer spawns and the cars that step_train spawns.
C2_ImpassableIndexed ==
    TickEnded =>
        \A i \in Slots :
            (entities[i].active /\ entities[i].impassable) =>
                CellsOf(spatial_grid, entities[i].vid) = {entities[i].pos}

\* C4: an entity whose health became 0 in tick t is gone at the latest when the
\* sweep of tick t+1 has ended: its handle resolves no more and no grid cell
\* holds it.
C4_GoneAfterNextSweep ==
    TickEnded =>
        \A z \in hist.zeroed :
            z.age >= 2 => /\ ~Live(Now, z.vid)
                          /\ CellsOf(spatial_grid, z.vid) = {}

\* C5: at the end of every playing tick no active entity is marked for
\* destruction; every entity that was active and marked when the sweep began
\* resolves no more and is in no grid cell; and player_vid is None exactly when
\* the player was among the swept entities or there was no player before.
C5_SweepLeavesNoMarked ==
    TickEnded =>
        /\ \A i \in Slots : ~(entities[i].active /\ entities[i].marked_for_destruction)
        /\ \A v \in hist.swept : /\ ~Live(Now, v)
                                  /\ CellsOf(spatial_grid, v) = {}
        /\ (player_vid = None) <=>
               (hist.pre_player = None \/ Unwrap(hist.pre_player) \in hist.swept)

\* the sweep has just taken the player, which stood in the grid, and another entity
C5_Witness ==
    /\ TickEnded
    /\ mode = "Playing"
    /\ player_vid = None
    /\ hist.pre_player # None
    /\ Unwrap(hist.pre_player) \in hist.swept
    /\ Cardinality(hist.swept) >= 2

\* the step releases the entity of slot i: the slot is inactive afterwards, or
\* holds a later allocation
Released(i) ==
    entities[i].active /\ (~entities'[i].active \/ entities'[i].vid # entities[i].vid)

\* the step about to be taken is the sweep
Sweeping == pc = "behave" /\ queue = <<>>

\* C6 as stated: an entity goes from active to inactive only in the end-of-tick
\* sweep; no earlier phase of the tick releases an entity.
C6_OnlySweepReleases ==
    [][\A i \in Slots : Released(i) => Sweeping]_vars

\* C6, amended: an entity goes from active to inactive only in the end-of-tick
\* sweep or in the pickup step, and the pickup step releases nothing but an item
\* entity that lies in the player's cell.
C6_SweepOrPickupReleases ==
    [][\A i \in Slots :
          Released(i) =>
              \/ Sweeping
              \/ /\ pc = "pickup"
                 /\ entities[i].type_ = "Item"
                 /\ InCell(spatial_grid, entities[i].vid,
                           entities[Unwrap(player_vid).id].pos)]_vars

\* the pickup step has just released an item entity: its slot heads the free
\* list, and it was never marked
C6_Witness ==
    /\ pc = "use"
    /\ available_ids # <<>>
    /\ LET e == entities[Head(available_ids)]
       IN ~e.active /\ e.type_ = "Item" /\ ~e.marked_for_destruction

\* the step allocates slot i: new_entity is the only place a version changes
Allocated(i) == entities'[i].active /\ entities'[i].vid # entities[i].vid

\* C7: an entity allocated in a slot that the sweep reclaimed earlier starts with
\* marked_for_destruction = false (so the sweep of that tick leaves it alone) and
\* with no target or counter of the previous occupant.  Stated for the entities
\* that use_conductor_hat, step_rail_layer and step_train create.
C7_ReusedSlotStartsClean ==
    [][\A i \in Slots :
          (Allocated(i) /\ entities'[i].type_ \in {"RailLayer", "Train"}) =>
              ~entities'[i].marked_for_destruction]_vars

\* C9: a drop does not destroy the stack: unless the player picks it up again in
\* the same tick, the item entity the drop created still resolves when the tick
\* has ended, holds the dropped stack, and is registered in the cell of its
\* position.
C9_DroppedStackSurvives ==
    (TickEnded /\ IsSome(hist.dropped)) =>
        LET d == Unwrap(hist.dropped)
        IN /\ Live(Now, d.vid)
           /\ entities[d.vid.id].type_ = "Item"
           /\ entities[d.vid.id].item = Some(d.item)
           /\ InCell(spatial_grid, d.vid, entities[d.vid.id].pos)

(***************************************************************************)
(* Damage on its own: one attack, or one train impact, on entities of any  *)
(* health, in a world as init_playing_state leaves it.                     *)
(***************************************************************************)
\* the first tick's worlds, also with a medkit lying on a cell
GroundWorlds ==
    StartWorlds \cup {PutOnGround(x[1], NewItem("Medkit"), x[2]).st : x \in StartWorlds \X Cells}

\* healths around each damage amount, and none at all
HitHealths ==
    UNION {{d - 1, d, d + 1} : d \in {ScratchStrength, PunchStrength, TrainDamage}}
        \cup {0}

\* the strengths of attack's match
AttackStrengths == {PunchStrength, ScratchStrength}

\* the world with the health of every active entity replaced
WithHealths(st, hs) ==
    [st EXCEPT !.entities =
        [i \in Slots |-> IF st.entities[i].active
                         THEN [st.entities[i] EXCEPT !.health = hs[i]]
                         ELSE st.entities[i]]]

InitHit ==
    /\ \E st0 \in GroundWorlds, hs \in [Slots -> HitHealths] :
          LET st == WithHealths(st0, hs)
          IN /\ \A i \in Slots : ~st0.entities[i].active => hs[i] = 0
             /\ \A i \in Slots : st0.entities[i].type_ = "Item" => hs[i] \in {0, PunchStrength}
             /\ entities = st.entities
             /\ available_ids = st.available_ids
             /\ spatial_grid = st.spatial_grid
             /\ tiles = st.tiles
             /\ player_vid = st.player_vid
    /\ mode = "Playing"
    /\ pc = "hit"
    /\ queue = <<>>
    /\ inv = NewInventory
    /\ call = NoCall
    /\ released = NoHandles
    /\ hist = NoHist
    /\ frame = 0
    /\ time_since_last_update = 0
    /\ frame_pause = 0

\* one call of attack, with any two handles
HitAttack ==
    \E attacker \in CallHandles(Now), attacked \in CallHandles(Now),
       strength \in AttackStrengths :
        /\ pc = "hit"
        /\ entities' = attack(entities, attacker, attacked, strength)
        /\ call' = [op |-> "attack", pre |-> Now, attacker |-> attacker,
                    attacked |-> attacked, strength |-> strength,
                    shake |-> attack_shake(entities, attacker, attacked),
                    rot |-> attack_rot(entities, attacker, attacked)]
        /\ pc' = "hit_done"
        /\ UNCHANGED <<available_ids, player_vid, spatial_grid, tiles, mode, queue,
                       inv, released, hist, frame, time_since_last_update, frame_pause>>

\* the hit lists step_train can collect from a cell: handles without repetition
HitLists(st) ==
    {<<v>> : v \in CallHandles(st)}
        \cup {<<x[1], x[2]>> : x \in {y \in CallHandles(st) \X CallHandles(st) :
                                          y[1] # y[2]}}

\* the damage loop at the end of step_train
HitTrain ==
    \E hit_entities \in HitLists(Now) :
        /\ pc = "hit"
        /\ entities' = DamageAll(entities, hit_entities)
        /\ call' = [op |-> "train", pre |-> Now, hit_entities |-> hit_entities]
        /\ pc' = "hit_done"
        /\ UNCHANGED <<available_ids, player_vid, spatial_grid, tiles, mode, queue,
                       inv, released, hist, frame, time_since_last_update, frame_pause>>

NextHit == HitAttack \/ HitTrain

SpecHit == InitHit /\ [][NextHit]_vars

\* h - d when h >= d, and 0 otherwise
Saturated(h, d) == IF h >= d THEN h - d ELSE 0

AttackLanded ==
    /\ Live(call.pre, call.attacker)
    /\ Live(call.pre, call.attacked)
    /\ call.pre.entities[call.attacked.id].attackable

\* C26: attack changes no entity (health, rotation and shake included) when
\* either handle does not resolve or the defender is not attackable; otherwise
\* the only health that changes is the defender's, by the strength of the
\* attack type (down to 0 when less is left), the defender alone shakes, and
\* rot is written to attacker and defender only.
C26_AttackFrame ==
    (pc = "hit_done" /\ call.op = "attack") =>
        IF AttackLanded
        THEN /\ \A i \in Slots \ {call.attacked.id} : entities[i] = call.pre.entities[i]
             /\ entities[call.attacked.id] =
                    [call.pre.entities[call.attacked.id] EXCEPT
                        !.health = IF @ >= call.strength THEN @ - call.strength ELSE 0]
             /\ call.shake = {call.attacked.id}
             /\ \A i \in Slots : IsSome(call.rot[i]) <=> i \in {call.attacker.id, call.attacked.id}
        ELSE /\ entities = call.pre.entities
             /\ call.shake = {}
             /\ \A i \in Slots : call.rot[i] = None

\* a live attacker hits a live entity that is not attackable and has health
\* to lose
C26_Witness ==
    /\ pc = "hit_done"
    /\ call.op = "attack"
    /\ Live(call.pre, call.attacker)
    /\ Live(call.pre, call.attacked)
    /\ ~call.pre.entities[call.attacked.id].attackable
    /\ call.pre.entities[call.attacked.id].health >= call.strength
    /\ entities = call.pre.entities

(***************************************************************************)
(* Tile damage on its own: a stage with one breakable Wall, hit again and  *)
(* again, at any cell, by any amount and any damage type.  call keeps the  *)
(* wall's cell, its durability, and the damage dealt to it so far.         *)
(***************************************************************************)
MaxDurability == 4    \* highest hp of the wall
MaxDamage == 3        \* highest damage of one hit
MaxHits == 4          \* hits explored

\* a breakable Wall tile of this durability
BreakableWall(d) == [DefaultTile EXCEPT !.tile = "Wall", !.hp = d, !.breakable = TRUE]

InitTile ==
    /\ \E c \in Cells, d \in 1 .. MaxDurability :
          /\ tiles = [EmptyStage EXCEPT ![c] = BreakableWall(d)]
          /\ call = [op |-> "none", wall |-> c, durability |-> d, total |-> 0,
                     hits |-> 0, ret |-> FALSE]
    /\ entities = [i \in Slots |-> DefaultEntity(i)]
    /\ available_ids = InitialIds(MaxEntities)
    /\ player_vid = None
    /\ spatial_grid = EmptyGrid
    /\ mode = "Playing"
    /\ pc = "tile"
    /\ queue = <<>>
    /\ inv = NewInventory
    /\ released = NoHandles
    /\ hist = NoHist
    /\ frame = 0
    /\ time_since_last_update = 0
    /\ frame_pause = 0

\* one call of damage_tile
DamageTile ==
    \E tile_pos \in CallTargets, damage \in 0 .. MaxDamage, damage_type \in DamageTypes :
        LET r == damage_tile(tiles, tile_pos, damage, damage_type)
        IN /\ pc = "tile"
           /\ call.hits < MaxHits
           /\ tiles' = r.tiles
           /\ call' = [call EXCEPT !.op = "damage_tile",
                                   !.hits = @ + 1,
                                   !.total = IF r.ret /\ tile_pos = call.wall
                                             THEN @ + damage ELSE @,
                                   !.ret = r.ret]
           /\ UNCHANGED <<entities, available_ids, player_vid, spatial_grid, mode, pc,
                          queue, inv, released, hist, frame, time_since_last_update, frame_pause>>

NextTile == DamageTile

SpecTile == InitTile /\ [][NextTile]_vars

\* C12: a breakable Wall of durability d that accepted hits have damaged by a
\* total of t is still a breakable Wall, with hp = d - t, as long as t < d, and
\* is a Ruin from the first hit on that brings t to d or more; its hp is never
\* outside 0 .. d, every cell of the stage still has its tile, and no other
\* tile changes.
C12_WallBreaksAtZero ==
    (pc = "tile") =>
        /\ DOMAIN tiles = Cells
        /\ \A c \in Cells \ {call.wall} : tiles[c] = DefaultTile
        /\ tiles[call.wall].hp \in 0 .. call.durability
        /\ IF call.total < call.durability
           THEN tiles[call.wall] = BreakableWall(call.durability - call.total)
           ELSE tiles[call.wall].tile = "Ruin"

\* the wall has taken several hits that left it standing and one that dealt
\* more than the hp it had left
C12_Witness ==
    /\ pc = "tile"
    /\ call.hits >= 3
    /\ call.total > call.durability
    /\ call.ret
    /\ tiles[call.wall].tile = "Ruin"

(***************************************************************************)
(* Properties of a call of move_entity_on_grid on a live handle.           *)
(***************************************************************************)
\* the call was made on a handle that resolved
LiveMoveDone == pc = "move_done" /\ Live(call.pre, call.vid)

\* (the target tile is walkable or ignore_tile_collision) and (the target cell is
\* not occupied by an impassable entity or ignore_entity_collision)
MoveAllowed ==
    /\ \/ in_bounds(call.target) /\ walkable(call.pre.tiles[call.target].tile)
       \/ call.ignore_tile_collision
    /\ \/ ~is_tile_occupied(call.pre, call.target)
       \/ call.ignore_entity_collision

\* the mover's cooldown runs again, unless the caller suppressed the reset
CooldownAfterMove ==
    LET e == entities[call.vid.id]
    IN IF call.dont_reset_move_cooldown
       THEN e.move_cooldown_countdown =
                call.pre.entities[call.vid.id].move_cooldown_countdown
       ELSE e.move_cooldown_countdown = e.move_cooldown

\* C13 as stated: the call returns true exactly when the move is allowed; on true
\* the entity's position is the target cell, its handle is in the target cell and
\* in no other cell, and unless suppressed its move_cooldown_countdown equals its
\* move_cooldown.
C13_MoveAsStated ==
    LiveMoveDone =>
        /\ call.ret <=> MoveAllowed
        /\ call.ret =>
              /\ entities[call.vid.id].pos = call.target
              /\ CellsOf(spatial_grid, call.vid) = {call.target}
              /\ CooldownAfterMove

\* C13, amended: as stated when the target lies inside the grid; when it lies
\* outside (which both ignore flags allow) the call still returns true and sets
\* the position, and the handle is then removed from its old cell and is in no
\* cell at all.
C13_MoveInsideGrid ==
    LiveMoveDone =>
        /\ call.ret <=> MoveAllowed
        /\ call.ret =>
              /\ entities[call.vid.id].pos = call.target
              /\ CellsOf(spatial_grid, call.vid) =
                     IF in_bounds(call.target) THEN {call.target} ELSE {}
              /\ CooldownAfterMove

\* a live entity has moved to another cell of the grid with both collisions
\* enabled, and its cooldown runs
C13_Witness ==
    /\ LiveMoveDone
    /\ call.ret
    /\ ~call.ignore_tile_collision
    /\ ~call.ignore_entity_collision
    /\ ~call.dont_reset_move_cooldown
    /\ call.target # call.pre.entities[call.vid.id].pos
    /\ InCell(spatial_grid, call.vid, call.target)
    /\ ~InCell(spatial_grid, call.vid, call.pre.entities[call.vid.id].pos)
    /\ entities[call.vid.id].move_cooldown_countdown > 0

(***************************************************************************)
(* Properties of the entity store's allocation and release.                *)
(***************************************************************************)
\* the last call was new_entity with a free slot to take
AllocDone == pc = "store" /\ call.op = "new_entity" /\ call.pre_ids # <<>>

\* new_entity returned the handle of a slot that was inactive, which is active
\* now with its version one higher, and no other slot changed
AllocEffect ==
    AllocDone =>
        /\ IsSome(call.ret)
        /\ LET v == Unwrap(call.ret)
           IN /\ ~call.pre[v.id].active
              /\ entities[v.id].vid = v
              /\ entities[v.id] = [call.pre[v.id] EXCEPT !.active = TRUE,
                                                         !.vid.version = @ + 1]
              /\ \A i \in Slots \ {v.id} : entities[i] = call.pre[i]

\* a slot that becomes active has a higher version than before, and no version
\* ever goes down
VersionsGrow ==
    \A i \in Slots :
        /\ entities'[i].vid.version >= entities[i].vid.version
        /\ (~entities[i].active /\ entities'[i].active) =>
               entities'[i].vid.version > entities[i].vid.version

\* C14: with a free slot, new_entity returns the handle of a slot that was
\* inactive, sets it active and raises its version by exactly 1, leaving every
\* other slot unchanged; and no slot becomes active without its version having
\* increased since it was last active.
C14_AllocBumpsVersion == []AllocEffect /\ [][VersionsGrow]_vars

\* new_entity has just given out a slot for the second time
C14_Witness ==
    /\ AllocDone
    /\ IsSome(call.ret)
    /\ Unwrap(call.ret).version >= 2
    /\ entities[Unwrap(call.ret).id].active
    /\ Unwrap(call.ret) \notin released

\* no slot index is in the free list twice
NoDuplicates(ids) ==
    \A j \in 1 .. Len(ids), k \in 1 .. Len(ids) : ids[j] = ids[k] => j = k

\* C16: set_inactive_vid on a live handle makes the slot inactive and puts its
\* index into the free list once; on a stale or already released handle it
\* changes nothing; the free list never holds a slot index twice, and holds
\* exactly the inactive slots.
C16_ReleaseOnce ==
    (pc = "store") =>
        /\ NoDuplicates(available_ids)
        /\ \A i \in Slots :
              (\E k \in 1 .. Len(available_ids) : available_ids[k] = i)
                  <=> ~entities[i].active
        /\ call.op = "set_inactive_vid" =>
              IF IsSome(get_entity(call.pre, call.vid))
              THEN /\ entities = [call.pre EXCEPT ![call.vid.id].active = FALSE]
                   /\ available_ids = <<call.vid.id>> \o call.pre_ids
              ELSE /\ entities = call.pre
                   /\ available_ids = call.pre_ids

\* the same handle has been released a second time
C16_Witness ==
    /\ pc = "store"
    /\ call.op = "set_inactive_vid"
    /\ call.vid \in released
    /\ call.pre[call.vid.id].vid = call.vid
    /\ ~call.pre[call.vid.id].active
    /\ available_ids = call.pre_ids

(***************************************************************************)
(* The game with every slot of the store in use.                           *)
(***************************************************************************)
\* every handle that some cell of the grid holds
GridHandles(g) == UNION {{g[c][k] : k \in 1 .. Len(g[c])} : c \in Cells}

\* the step about to be taken holds a spawn site: the drop, the item use
\* (conductor hat), or a round of the behaviour loop (train, train car)
AtSpawnSite == pc \in {"drop", "use"} \/ (pc = "behave" /\ queue # <<>>)

StoreFull == \A i \in Slots : entities[i].active

MaxHandles == 5       \* handles in the grid, stale ones included

\* the start worlds without water in which every cooldown has run out; neither
\* is read by the query
OccWorlds ==
    {st \in StartWorlds :
        /\ st.tiles = EmptyStage
        /\ \A i \in Slots : st.entities[i].move_cooldown_countdown = 0}

InitOcc ==
    /\ \E st \in OccWorlds :
          /\ entities = st.entities
          /\ available_ids = st.available_ids
          /\ spatial_grid = st.spatial_grid
          /\ tiles = st.tiles
          /\ player_vid = st.player_vid
    /\ mode = "Playing"
    /\ pc = "occ"
    /\ queue = <<>>
    /\ inv = NewInventory
    /\ call = NoCall
    /\ released = NoHandles
    /\ hist = NoHist
    /\ frame = 0
    /\ time_since_last_update = 0
    /\ frame_pause = 0

\* set_inactive_vid on a live handle; the grid keeps the handle
OccRelease ==
    \E i \in Slots :
        LET r == set_inactive_vid(entities, available_ids, entities[i].vid)
        IN /\ pc = "occ"
           /\ entities[i].active
           /\ entities' = r.entities
           /\ available_ids' = r.available_ids
           /\ released' = released \cup {entities[i].vid}
           /\ UNCHANGED <<player_vid, spatial_grid, tiles, mode, pc, queue, inv, call,
                          hist, frame, time_since_last_update, frame_pause>>

\* a zombie placed as the zombie loop of init_playing_state places one
OccPlaceZombie ==
    \E p \in Cells :
        /\ pc = "occ"
        /\ available_ids # <<>>
        /\ Cardinality(GridHandles(spatial_grid)) < MaxHandles
        /\ is_tile_walkable(Now, p)
        /\ Becomes(PlaceZombie(Now, p, 0))
        /\ UNCHANGED <<mode, pc, queue, inv, call, released, hist, frame, time_since_last_update, frame_pause>>

\* an item entity put on the ground as the drop puts one
OccPutItem ==
    \E p \in Cells :
        /\ pc = "occ"
        /\ available_ids # <<>>
        /\ Cardinality(GridHandles(spatial_grid)) < MaxHandles
        /\ Becomes(PutOnGround(Now, NewItem("Medkit"), p).st)
        /\ UNCHANGED <<mode, pc, queue, inv, call, released, hist, frame, time_since_last_update, frame_pause>>

\* the query
OccQuery ==
    \E tile_coords \in CallTargets :
        /\ pc = "occ"
        /\ call' = [op |-> "is_tile_occupied", pre |-> Now,
                    tile_coords |-> tile_coords,
                    ret |-> is_tile_occupied(Now, tile_coords)]
        /\ pc' = "occ_done"
        /\ UNCHANGED <<entities, available_ids, player_vid, spatial_grid, tiles, mode,
                       queue, inv, released, hist, frame, time_since_last_update, frame_pause>>

NextOcc == OccRelease \/ OccPlaceZombie \/ OccPutItem \/ OccQuery

SpecOcc == InitOcc /\ [][NextOcc]_vars

\* the point is outside the grid
OutsideGrid(p) == p[1] < 0 \/ p[2] < 0 \/ p[1] >= StageW \/ p[2] >= StageH

\* some slot holds an active impassable entity whose own handle is in the cell
HoldsImpassable(st, p) ==
    \E i \in Slots : /\ st.entities[i].active
                     /\ st.entities[i].impassable
                     /\ InCell(st.spatial_grid, st.entities[i].vid, p)

\* C17: is_tile_occupied is true exactly when the point is outside the grid, or
\* a handle stored in the cell is the handle of an active entity that is
\* impassable; handles of released entities and of earlier occupants of a slot,
\* and entities that are not impassable, do not make a cell occupied.
C17_OccupiedIffImpassable ==
    (pc = "occ_done") =>
        (call.ret <=> (OutsideGrid(call.tile_coords)
                          \/ HoldsImpassable(call.pre, call.tile_coords)))

\* a cell that holds the handle of an earlier occupant of a slot that an
\* impassable entity uses now, and a live item entity, is reported free
C17_Witness ==
    /\ pc = "occ_done"
    /\ ~OutsideGrid(call.tile_coords)
    /\ call.ret = FALSE
    /\ \E h \in GridHandles(call.pre.spatial_grid) :
          /\ InCell(call.pre.spatial_grid, h, call.tile_coords)
          /\ call.pre.entities[h.id].active
          /\ call.pre.entities[h.id].impassable
          /\ call.pre.entities[h.id].vid.version > h.version
    /\ \E h \in GridHandles(call.pre.spatial_grid) :
          /\ InCell(call.pre.spatial_grid, h, call.tile_coords)
          /\ Live(call.pre, h)
          /\ ~call.pre.entities[h.id].impassable

(***************************************************************************)
(* Positions and handles the tick relies on.                               *)
(***************************************************************************)
\* the entities that move_entity_on_grid moves with both collisions enabled
MovesWithCollisions(i) ==
    \/ player_vid = Some(entities[i].vid)
    \/ entities[i].mood = "Wander"

\* C18: at every point of every tick the player and every wanderer stand on a
\* cell of the stage, so the grid cell of the player's position, which the drop
\* and the pickup index directly, exists.
C18_MoversStayInBounds ==
    \A i \in Slots :
        (entities[i].active /\ MovesWithCollisions(i)) =>
            /\ in_bounds(entities[i].pos)
            /\ entities[i].pos \in DOMAIN spatial_grid

\* the player has just asked for a cell outside the stage: it stands where it
\* stood and its cooldown runs
C18_Witness ==
    /\ pc = "drop"
    /\ call.op = "player_movement"
    /\ call.outside
    /\ in_bounds(entities[Unwrap(player_vid).id].pos)
    /\ entities[Unwrap(player_vid).id].move_cooldown_countdown > 0

(***************************************************************************)
(* Handles the tick unwraps (C20): player_vid in the movement and camera   *)
(* code, the loop variable in entity_shake_attenuation.                    *)
(***************************************************************************)
\* the handles the behaviour loop has still to step
Pending == {queue[k] : k \in 1 .. Len(queue)}

\* C20: in every playing state of the game, player_vid, if Some, resolves to
\* an active entity, and while the behaviour loop runs every handle that
\* get_active_vids collected and that is still to be stepped resolves; so the
\* unwraps of step_playing and entity_shake_attenuation never fail.
C20_TickUnwrapsSucceed ==
    mode = "Playing" =>
        /\ IsSome(player_vid) => Live(Now, Unwrap(player_vid))
        /\ pc = "behave" => \A vid \in Pending : Live(Now, vid)

\* in the middle of the behaviour loop of a later tick, after a round has
\* marked an entity for destruction, with the player and other handles pending
C20_Witness ==
    /\ mode = "Playing"
    /\ pc = "behave"
    /\ frame >= 1
    /\ IsSome(player_vid)
    /\ Pending # {}
    /\ Len(queue) < Len(get_active_vids(entities))
    /\ \E i \in Slots : /\ entities[i].active
                        /\ entities[i].marked_for_destruction
                        /\ entities[i].vid \notin Pending
    /\ hist.swept # {}


(***************************************************************************)
(* The fixed-timestep loop of step (step.rs), called once per rendered     *)
(* frame.  Time is counted in whole units, TIMESTEP of them to a tick.     *)
(* The mode is Title, whose tick (step_title) changes nothing, so that a   *)
(* call of step is one action.                                             *)
(***************************************************************************)
TIMESTEP == 4         \* units of time in one tick (1/60 s)
MaxFrameTime == 9     \* longest rendered frame, in units of time
MaxPause == 2         \* highest frame_pause a run starts with
MaxSteps == 6         \* ticks counted in State.frame

\* the while loop of step: the accumulator, frame_pause and frame on return
RECURSIVE Drain(_, _, _)
Drain(acc, pause, fr) ==
    IF acc > TIMESTEP
    THEN IF pause > 0
         THEN [time_since_last_update |-> acc - TIMESTEP, frame_pause |-> pause - 1,
               frame |-> fr]
         ELSE Drain(acc - TIMESTEP, pause, fr + 1)
    ELSE [time_since_last_update |-> acc, frame_pause |-> pause, frame |-> fr]

InitStep ==
    /\ entities = [i \in Slots |-> DefaultEntity(i)]
    /\ available_ids = InitialIds(MaxEntities)
    /\ player_vid = None
    /\ spatial_grid = EmptyGrid
    /\ tiles = EmptyStage
    /\ mode = "Title"
    /\ pc = "step"
    /\ queue = <<>>
    /\ inv = NewInventory
    /\ call = NoCall
    /\ released = NoHandles
    /\ hist = NoHist
    /\ frame = 0
    /\ time_since_last_update = 0
    /\ frame_pause \in 0 .. MaxPause

\* one call of step, after a rendered frame that took frame_time
StepCall ==
    \E frame_time \in 0 .. MaxFrameTime :
        LET r == Drain(time_since_last_update + frame_time, frame_pause, frame)
        IN /\ pc = "step"
           /\ r.frame <= MaxSteps
           /\ time_since_last_update' = r.time_since_last_update
           /\ frame_pause' = r.frame_pause
           /\ frame' = r.frame
           /\ call' = [op |-> "step", start |-> time_since_last_update,
                       frame_time |-> frame_time, frame_pause |-> frame_pause]
           /\ UNCHANGED <<entities, available_ids, player_vid, spatial_grid, tiles, mode,
                          pc, queue, inv, released, hist>>

NextStep == StepCall

SpecStep == InitStep /\ [][NextStep]_vars

\* C19: when a call of step returns, the accumulated time is at most one
\* TIMESTEP, whatever the accumulator and frame_pause were, and the call has
\* taken a whole number of TIMESTEPs from the accumulator.
C19_StepDrainsBacklog ==
    (pc = "step" /\ call.op = "step") =>
        /\ time_since_last_update <= TIMESTEP
        /\ time_since_last_update >= 0
        /\ (call.start + call.frame_time - time_since_last_update) % TIMESTEP = 0

(***************************************************************************)
(* A restart: after a game is over the Enter key leads to the title        *)
(* (process_input_game_over) and from there into init_playing_state again, *)
(* on the State and the entity store of the game before.                   *)
(***************************************************************************)
\* the world init_playing_state works on after clear_all_entities and the new
\* stage and grid
ClearedWorld(ents, t) ==
    World(clear_all_entities(ents).entities, clear_all_entities(ents).available_ids,
          EmptyGrid, t, None)

\* the worlds init_playing_state can leave on a store with these records
RestartWorlds(ents) ==
    WithZombies({PlacePlayer(ClearedWorld(ents, x[1]), x[2]) :
                    x \in {y \in StartStages \X Cells :
                              is_tile_walkable(ClearedWorld(ents, y[1]), y[2])}},
                NumZombies)

\* process_input_game_over on Enter, for the games that ended in the last tick
\* explored
ToTitle ==
    /\ pc = "start"
    /\ mode = "GameOver"
    /\ frame = MaxFrames
    /\ mode' = "Title"
    /\ UNCHANGED <<entities, available_ids, player_vid, spatial_grid, tiles, pc,
                   queue, inv, call, released, hist, frame,
                   time_since_last_update, frame_pause>>

\* process_input_title on Enter: init_playing_state
Restart ==
    /\ pc = "start"
    /\ mode = "Title"
    /\ \E st \in RestartWorlds(entities) :
          /\ Becomes(st)
          /\ hist' = [NoHist EXCEPT !.pre_player = st.player_vid]
    /\ mode' = "Playing"
    /\ call' = [op |-> "init_playing_state", pre |-> entities]
    /\ time_since_last_update' = 0
    /\ frame_pause' = 0
    /\ UNCHANGED <<pc, queue, inv, released, frame>>

NextRestart == Next \/ ToTitle \/ Restart

\* the first game starts on a stage without water, with the player in the
\* corner and a zombie next to it
InitRestart ==
    /\ Init
    /\ tiles = EmptyStage
    /\ spatial_grid[<<0, 0>>] = <<Unwrap(player_vid)>>
    /\ spatial_grid[<<1, 0>>] # <<>>

SpecRestart == InitRestart /\ [][NextRestart]_vars

\* the record is one that init_playing_state leaves on a new store, but for
\* the version of its handle
AsInFirstGame(e) ==
    \E st \in StartWorlds : [e EXCEPT !.vid = st.entities[e.vid.id].vid] = st.entities[e.vid.id]

\* C21: after init_playing_state on a restart the active entities are the new
\* player and the new zombies, none of them is marked for destruction or has
\* a field value that a first game would not give it, and no handle of the
\* game before resolves.
C21_RestartIsFresh ==
    (call.op = "init_playing_state") =>
        /\ IsSome(player_vid)
        /\ Cardinality({i \in Slots : entities[i].active}) = 1 + NumZombies
        /\ \A i \in Slots :
              entities[i].active =>
                  /\ entities[i].type_ = IF entities[i].vid = Unwrap(player_vid)
                                         THEN "Player" ELSE "Zombie"
                  /\ ~entities[i].marked_for_destruction
                  /\ AsInFirstGame(entities[i])
                  /\ entities[i].vid.version > call.pre[i].vid.version

(***************************************************************************)
(* The game after the conductor hat: the player has used the hat in the    *)
(* first tick.  The ticks up to MaxFrames take every input, the later ones *)
(* a direction only, for as many ticks as the rail layer and the train     *)
(* need to cross the stage.                                                *)
(***************************************************************************)
MaxTrainFrames == 9   \* ticks of such a game explored

\* the first tick up to the behaviour loop: numpad, no move, no drop, no
\* pickup, the hat used on the player's cell
InitTrain ==
    /\ \E st0 \in StartWorlds, sel \in SelectInputs :
          LET st == ItemUseLogic(set_inventory_index_from_numpad(st0, sel), "center")
          IN /\ \E i \in Slots : st.entities[i].active /\ st.entities[i].type_ = "RailLayer"
             /\ entities = st.entities
             /\ available_ids = st.available_ids
             /\ spatial_grid = st.spatial_grid
             /\ tiles = st.tiles
             /\ player_vid = st.player_vid
             /\ hist = [NoHist EXCEPT !.pre_player = st.player_vid]
             /\ queue = get_active_vids(st.entities)
    /\ mode = "Playing"
    /\ pc = "behave"
    /\ inv = NewInventory
    /\ call = NoCall
    /\ released = NoHandles
    /\ frame = 0
    /\ time_since_last_update = 0
    /\ frame_pause = 0

\* the player phases of a tick in which the only input is a direction
MoveTick ==
    \E dir \in MoveInputs :
        LET st == PlayerMovement(Now, dir)
        IN /\ pc = "start"
           /\ mode = "Playing"
           /\ frame < MaxTrainFrames
           /\ player_vid # None
           /\ Live(Now, Unwrap(player_vid))
           /\ Becomes(st)
           /\ hist' = [Record(hist, entities, st.entities) EXCEPT !.dropped = None]
           /\ call' = [op |-> "player_movement", outside |-> AsksOutside(Now, dir)]
           /\ queue' = get_active_vids(st.entities)
           /\ pc' = "behave"
           /\ UNCHANGED <<mode, inv, released, frame, time_since_last_update, frame_pause>>

NextTrain == Next \/ MoveTick

SpecTrain == InitTrain /\ [][NextTrain]_vars


(***************************************************************************)
(* Moves and the move cooldown (C29).                                      *)
(***************************************************************************)
\* the step leaves the entity of slot i in place as the same entity
Stays(i) ==
    /\ entities[i].active
    /\ entities'[i].active
    /\ entities'[i].vid = entities[i].vid

\* the countdown at which the step can still move an entity: a round of the
\* behaviour loop lowers it by one tick, in step_move_cooldown, before it moves
ReadyAt == IF pc = "behave" THEN 1 ELSE 0

\* what a step may do to the position and the move countdown of slot i
CooldownRule(i) ==
    /\ entities'[i].pos # entities[i].pos =>
          /\ entities[i].move_cooldown_countdown <= ReadyAt
          /\ entities'[i].move_cooldown_countdown = entities'[i].move_cooldown
    /\ entities'[i].move_cooldown_countdown < entities[i].move_cooldown_countdown =>
          /\ pc = "behave"
          /\ queue # <<>>
          /\ Head(queue) = entities[i].vid
          /\ entities'[i].move_cooldown_countdown = entities[i].move_cooldown_countdown - 1

\* the player's move of this step was refused
BlockedPlayerMove ==
    /\ pc = "start"
    /\ pc' # "start"
    /\ call'.op = "player_movement"
    /\ call'.outside

\* C29: an entity whose move_cooldown_countdown is above 0 does not change
\* cell: a step moves an entity (player, wanderer, rail layer, train) only
\* when its countdown, lowered by one per tick in step_move_cooldown, has
\* reached 0, and leaves it with countdown = move_cooldown; a refused move of
\* the player leaves the same countdown as a move that succeeds.
C29_NoMoveDuringCooldown ==
    [][/\ \A i \in Slots : Stays(i) => CooldownRule(i)
       /\ BlockedPlayerMove =>
             LET pv == Unwrap(player_vid)
             IN /\ entities'[pv.id].pos = entities[pv.id].pos
                /\ entities'[pv.id].move_cooldown_countdown = entities'[pv.id].move_cooldown]_vars

\* the behaviour loop is about to run after a refused move of the player,
\* with a train in the grid that waits for its countdown after a move
C29_Witness ==
    /\ pc = "behave"
    /\ call.op = "player_movement"
    /\ call.outside
    /\ IsSome(player_vid)
    /\ entities[Unwrap(player_vid).id].move_cooldown_countdown > 0
    /\ \E v \in GridHandles(spatial_grid) :
          /\ Live(Now, v)
          /\ entities[v.id].type_ = "Train"
          /\ entities[v.id].move_cooldown_countdown > 0


(***************************************************************************)
(* The grid after a tick (C30).                                            *)
(***************************************************************************)
\* the number of entries of the whole grid
RECURSIVE EntriesIn(_, _)
EntriesIn(g, cs) ==
    IF cs = {} THEN 0
    ELSE LET c == CHOOSE x \in cs : TRUE IN Len(g[c]) + EntriesIn(g, cs \ {c})

\* C30: after every playing tick every handle stored in a cell of the spatial
\* grid resolves to an active entity, and no handle is stored twice in the grid.
C30_GridHoldsLiveHandlesOnce ==
    (TickEnded /\ mode = "Playing") =>
        /\ \A vid \in GridHandles(spatial_grid) : Live(Now, vid)
        /\ EntriesIn(spatial_grid, Cells) = Cardinality(GridHandles(spatial_grid))

\* a tick has ended in which the sweep released an entity, with a train that
\* has moved into the grid next to other entities
C30_Witness ==
    /\ TickEnded
    /\ mode = "Playing"
    /\ hist.swept # {}
    /\ \E v \in GridHandles(spatial_grid) : entities[v.id].type_ = "Train"
    /\ Cardinality(GridHandles(spatial_grid)) >= 2

\* ---------------------------------------------------------------------------
\* Item use on its own: the player holds one stack and uses it.
\* ---------------------------------------------------------------------------

MaxItemCount == 2
MaxCountdown == 2

UseTypes == ItemTypes \cup {"Wall"}

\* a stack as Item::new makes it, with a count and a running countdown
StackOf(t, n, d) == [ItemWithCount(t, n) EXCEPT !.use_cooldown_countdown = d]

\* the world in which the player has this health and holds only this stack,
\* selected
WithStack(st, health, item) ==
    [st EXCEPT !.entities[Unwrap(st.player_vid).id].health = health,
               !.entities[Unwrap(st.player_vid).id].inventory =
                   [entries |-> <<[index |-> 0, item |-> item]>>, selected_index |-> 0]]

\* the stage with grass or a ruin on one cell nobody stands on
UseStages(st) ==
    {st.tiles} \cup
    {[st.tiles EXCEPT ![x[1]] = [DefaultTile EXCEPT !.tile = x[2]]] :
        x \in {y \in Cells \X {"Grass", "Ruin"} : st.spatial_grid[y[1]] = <<>>}}

\* the selected stack of the player
SelectedStack(st) ==
    LET inventory == st.entities[Unwrap(st.player_vid).id].inventory
    IN get(inventory, inventory.selected_index)

InitUse ==
    /\ \E st0 \in GroundWorlds, t \in UseTypes, n \in 0 .. MaxItemCount, d \in 0 .. MaxCountdown,
          health \in {PlayerHealth - 1, PlayerHealth} :
          LET st == WithStack(st0, health, StackOf(t, n, d))
          IN /\ n <= ItemMaxCount(t)
             /\ entities = st.entities
             /\ available_ids = st.available_ids
             /\ spatial_grid = st.spatial_grid
             /\ tiles \in UseStages(st)
             /\ player_vid = st.player_vid
             /\ hist = [NoHist EXCEPT !.pre_player = st.player_vid]
    /\ mode = "Playing"
    /\ pc = "use"
    /\ queue = <<>>
    /\ inv = NewInventory
    /\ call = NoCall
    /\ released = NoHandles
    /\ frame = 0
    /\ time_since_last_update = 0
    /\ frame_pause = 0

\* step_playing's item use logic with a use input
UseItemCall ==
    \E u \in UseInputs \ {"none"} :
        /\ pc = "use"
        /\ IsSome(player_vid)
        /\ Live(Now, Unwrap(player_vid))
        /\ IsSome(SelectedStack(Now))
        /\ LET item == Unwrap(SelectedStack(Now)).item
               r == use_item(TakeOut(Now, Unwrap(player_vid), 0), Unwrap(player_vid), item, u)
           IN /\ Becomes(ItemUseLogic(Now, u))
              /\ call' = [op |-> "use_item", pre |-> Now, item |-> item, u |-> u,
                          ret |-> r.ret, marked |-> r.marked, after |-> r.item,
                          taken |-> TakeOut(Now, Unwrap(player_vid), 0), st |-> r.st]
        /\ UNCHANGED <<mode, pc, queue, inv, hist, released, frame,
                       time_since_last_update, frame_pause>>

\* use_wall called with the wall stack the player holds
UseWallCall ==
    \E u \in UseInputs \ {"none"} :
        /\ pc = "use"
        /\ IsSome(player_vid)
        /\ Live(Now, Unwrap(player_vid))
        /\ IsSome(SelectedStack(Now))
        /\ Unwrap(SelectedStack(Now)).item.type_ = "Wall"
        /\ LET item == Unwrap(SelectedStack(Now)).item
               r == use_wall(Now, Unwrap(player_vid), item, u)
           IN /\ Becomes(r.st)
              /\ call' = [op |-> "use_wall", pre |-> Now, item |-> item, u |-> u,
                          ret |-> r.ret, marked |-> FALSE]
        /\ UNCHANGED <<mode, pc, queue, inv, hist, released, frame,
                       time_since_last_update, frame_pause>>

\* the cooldown step of a tick, while a countdown of the player runs
UseCool ==
    /\ pc = "use"
    /\ IsSome(player_vid)
    /\ Live(Now, Unwrap(player_vid))
    /\ IsSome(SelectedStack(Now))
    /\ Unwrap(SelectedStack(Now)).item.use_cooldown_countdown > 0
    /\ Becomes(step_inventory_item_cooldowns(Now, Unwrap(player_vid)))
    /\ call' = [op |-> "step_inventory_item_cooldowns", pre |-> Now,
                item |-> Unwrap(SelectedStack(Now)).item, u |-> "none",
                ret |-> FALSE, marked |-> FALSE]
    /\ UNCHANGED <<mode, pc, queue, inv, hist, released, frame,
                   time_since_last_update, frame_pause>>

NextUse == UseItemCall \/ UseWallCall \/ UseCool

SpecUse == InitUse /\ [][NextUse]_vars

\* the countdown of the stack the player holds, 0 without a stack
HeldCountdown(st) ==
    IF IsSome(SelectedStack(st)) THEN Unwrap(SelectedStack(st)).item.use_cooldown_countdown
    ELSE 0

\* a use of a stack that is cooling down or empty
BlockedUse ==
    /\ call.op = "use_item"
    /\ (call.item.use_cooldown_countdown > 0 \/ call.item.count = 0)

\* C22: use_item returns false and changes neither the item (count, countdown,
\* marked flag) nor any entity, tile or grid state when the item's countdown is
\* positive or its count is 0; a use succeeds only with a countdown <= 0, a
\* successful use leaves a positive countdown on the stack, and a countdown
\* only falls in the cooldown step, by one tick.
C22_CooldownGatesUse ==
    /\ [](BlockedUse => /\ ~call.ret
                        /\ call.after = call.item
                        /\ ~call.marked
                        /\ call.st = call.taken
                        /\ Now = call.pre)
    /\ []((call.op = "use_item" /\ call.ret) =>
              /\ call.item.use_cooldown_countdown <= 0
              /\ call.item.count > 0
              /\ call.after.use_cooldown_countdown > 0)
    /\ [][HeldCountdown(Now)' < HeldCountdown(Now) =>
              /\ call'.op = "step_inventory_item_cooldowns"
              /\ HeldCountdown(Now)' = HeldCountdown(Now) - 1]_vars

\* a use blocked by the countdown that a successful use started, with stock
\* left and an effect that would have succeeded
C22_Witness ==
    /\ BlockedUse
    /\ call.item.type_ = "Medkit"
    /\ call.item.count > 0
    /\ call.item.use_cooldown_countdown = ItemProps("Medkit").use_cooldown
    /\ call.pre.entities[Unwrap(call.pre.player_vid).id].health < PlayerHealth
    /\ ~call.ret

\* C23: when the effect succeeds the countdown becomes use_cooldown and a
\* consumed item's count falls by exactly 1; a stack that reaches 0 is marked
\* and its entry is gone from the inventory after the item use phase, otherwise
\* the selected slot holds the real item again, never the placeholder; the
\* count of an item that is not consumed on use never changes.
C23_SuccessfulUseBookkeeping ==
    /\ [](call.op = "use_item" =>
            LET props == ItemProps(call.item.type_)
                inventory == entities[Unwrap(player_vid).id].inventory
            IN /\ call.ret =>
                    /\ call.after.use_cooldown_countdown = props.use_cooldown
                    /\ call.after.count =
                           IF props.consume_on_use THEN call.item.count - 1
                           ELSE call.item.count
                    /\ call.marked <=> (props.consume_on_use /\ call.after.count = 0)
               /\ IF call.marked
                  THEN get(inventory, 0) = None
                  ELSE get(inventory, 0) = Some([index |-> 0, item |-> call.after]))
    /\ [][(/\ IsSome(SelectedStack(Now))
           /\ ~ItemProps(Unwrap(SelectedStack(Now)).item.type_).consume_on_use)
           => /\ IsSome(SelectedStack(Now)')
              /\ Unwrap(SelectedStack(Now)').item.count =
                     Unwrap(SelectedStack(Now)).item.count]_vars

\* the last medkit of a stack is used up and the entry is gone
C23_Witness ==
    /\ call.op = "use_item"
    /\ call.ret
    /\ call.item.type_ = "Medkit"
    /\ call.item.count = 1
    /\ call.marked
    /\ entities[Unwrap(player_vid).id].inventory.entries = <<>>

\* the cell a use input aims at, seen from the player
AimedCell(st, u) == Plus(st.entities[Unwrap(st.player_vid).id].pos, UseOffset(u))

\* the aimed cell is within the reach of the item
InReach(st, item, u) ==
    LET distance == new_york_dist(st.entities[Unwrap(st.player_vid).id].pos, AimedCell(st, u))
    IN /\ distance >= ItemProps(item.type_).min_range
       /\ distance <= ItemProps(item.type_).range

\* a cell of the stage with buildable ground and no live impassable entity
Buildable(st, c) ==
    /\ c \in Cells
    /\ st.tiles[c].tile \in {"None", "Grass"}
    /\ \A k \in 1 .. Len(st.spatial_grid[c]) :
          Live(st, st.spatial_grid[c][k]) => ~st.entities[st.spatial_grid[c][k].id].impassable

FirstNotAttackable(st, c) ==
    /\ c \in Cells
    /\ st.spatial_grid[c] # <<>>
    /\ \/ ~Live(st, Head(st.spatial_grid[c]))
       \/ ~st.entities[Head(st.spatial_grid[c]).id].attackable

\* C25: a ready Fist used on a cell whose first entity is not attackable, or
\* whose first handle is stale, changes no health, returns false and starts
\* no cooldown.
C25_FistOnNonAttackableFails ==
    (/\ call.op = "use_item"
     /\ call.item.type_ = "Fist"
     /\ InReach(call.pre, call.item, call.u)
     /\ FirstNotAttackable(call.pre, AimedCell(call.pre, call.u)))
    => /\ \A i \in Slots : entities[i].health = call.pre.entities[i].health
       /\ ~call.ret
       /\ HeldCountdown(Now) = call.item.use_cooldown_countdown

\* C28: a Wall stack with stock and no running countdown, used through
\* use_item on an in-range, buildable, unoccupied cell, places a Wall tile
\* there and loses one wall.
C28_UseItemPlacesWall ==
    (/\ call.op = "use_item"
     /\ call.item.type_ = "Wall"
     /\ call.item.count > 0
     /\ call.item.use_cooldown_countdown <= 0
     /\ InReach(call.pre, call.item, call.u)
     /\ Buildable(call.pre, AimedCell(call.pre, call.u)))
    => /\ call.ret
       /\ tiles[AimedCell(call.pre, call.u)].tile = "Wall"
       /\ call.after.count = call.item.count - 1

\* ---------------------------------------------------------------------------
\* Tile damage on stages of mixed tiles: open ground, water, rails as a rail
\* layer lays them and breakable walls, hit at any cell or outside the stage.
\* call keeps the stage before the hit and the cells whose wall has broken.
\* ---------------------------------------------------------------------------

MaxBlows == 3         \* calls of damage_tile explored on a mixed stage
MaxWallHp == 2        \* highest hp of a wall of a mixed stage

\* the tiles a cell starts with
StageTiles ==
    {DefaultTile, TileOf("Water"), RailTile} \cup {BreakableWall(d) : d \in 1 .. MaxWallHp}

InitDamage ==
    /\ tiles \in [Cells -> StageTiles]
    /\ \E c \in Cells : tiles[c].breakable
    /\ call = [op |-> "none", hits |-> 0, broken |-> {}]
    /\ entities = [i \in Slots |-> DefaultEntity(i)]
    /\ available_ids = InitialIds(MaxEntities)
    /\ player_vid = None
    /\ spatial_grid = EmptyGrid
    /\ mode = "Playing"
    /\ pc = "damage"
    /\ queue = <<>>
    /\ inv = NewInventory
    /\ released = NoHandles
    /\ hist = NoHist
    /\ frame = 0
    /\ time_since_last_update = 0
    /\ frame_pause = 0

\* one call of damage_tile on the stage as it is
DamageCall ==
    \E tile_pos \in CallTargets, damage \in 0 .. MaxDamage, damage_type \in DamageTypes :
        LET r == damage_tile(tiles, tile_pos, damage, damage_type)
        IN /\ pc = "damage"
           /\ call.hits < MaxBlows
           /\ tiles' = r.tiles
           /\ call' = [op |-> "damage_tile", hits |-> call.hits + 1, pre |-> tiles,
                       tile_pos |-> tile_pos, damage |-> damage,
                       damage_type |-> damage_type, ret |-> r.ret,
                       broken |-> IF tile_pos \in Cells /\ tiles[tile_pos].tile = "Wall"
                                     /\ r.tiles[tile_pos].tile = "Ruin"
                                  THEN call.broken \cup {tile_pos} ELSE call.broken]
           /\ UNCHANGED <<entities, available_ids, player_vid, spatial_grid, mode, pc,
                          queue, inv, released, hist, frame, time_since_last_update, frame_pause>>

NextDamage == DamageCall

SpecDamage == InitDamage /\ [][NextDamage]_vars

\* the hit of the call is one damage_tile has to refuse
RefusedHit ==
    \/ call.tile_pos \notin Cells
    \/ ~call.pre[call.tile_pos].breakable
    \/ call.damage_type \notin {"Punch", "Scratch"}

\* C27: damage_tile returns false and leaves the stage unchanged when the
\* position is outside the stage, the tile is not breakable or the damage type
\* is not accepted; a Ruin or Rail tile is never changed by any hit.
C27_UnbreakableTilesKeep ==
    /\ []((pc = "damage" /\ call.op = "damage_tile" /\ RefusedHit) =>
              (~call.ret /\ tiles = call.pre))
    /\ [][\A c \in Cells : tiles[c].tile \in {"Ruin", "Rail"} => tiles'[c] = tiles[c]]_vars

\* the Ruin a broken Wall left is punched with the highest damage, and a Rail
\* lies on the stage
C27_Witness ==
    /\ pc = "damage"
    /\ call.op = "damage_tile"
    /\ call.tile_pos \in call.broken
    /\ call.pre[call.tile_pos].tile = "Ruin"
    /\ call.damage = MaxDamage
    /\ call.damage_type = "Punch"
    /\ ~call.ret
    /\ \E c \in Cells : tiles[c].tile = "Rail"

\* ---------------------------------------------------------------------------
\* The entity store with both clearing operations, and callers that give a
\* fresh entity its type as the templates do.
\* ---------------------------------------------------------------------------

MaxPoolVersion == 2   \* allocations per slot explored with both clears

InitPool ==
    /\ entities = [i \in Slots |-> DefaultEntity(i)]
    /\ available_ids = InitialIds(MaxEntities)
    /\ player_vid = None
    /\ spatial_grid = EmptyGrid
    /\ tiles = EmptyStage
    /\ mode = "Title"
    /\ pc = "pool"
    /\ queue = <<>>
    /\ inv = NewInventory
    /\ call = NoCall
    /\ released = {}
    /\ hist = NoHist
    /\ frame = 0
    /\ time_since_last_update = 0
    /\ frame_pause = 0

\* new_entity
PoolNewEntity ==
    LET r == new_entity(entities, available_ids)
    IN /\ pc = "pool"
       /\ \A i \in Slots : r.entities[i].vid.version <= MaxPoolVersion
       /\ entities' = r.entities
       /\ available_ids' = r.available_ids
       /\ call' = [op |-> "new_entity"]
       /\ UNCHANGED <<player_vid, spatial_grid, tiles, mode, pc, queue, inv,
                      released, hist, frame, time_since_last_update, frame_pause>>

\* a template writes type_ into an entity that has none yet
PoolInitAs ==
    \E id \in Slots, t \in {"Player", "Zombie"} :
        /\ pc = "pool"
        /\ entities[id].active
        /\ entities[id].type_ = "None"
        /\ entities' = [entities EXCEPT ![id].type_ = t]
        /\ call' = [op |-> "init_as"]
        /\ UNCHANGED <<available_ids, player_vid, spatial_grid, tiles, mode, pc, queue, inv,
                       released, hist, frame, time_since_last_update, frame_pause>>

\* set_inactive_vid on any handle, live or not
PoolSetInactiveVid ==
    \E id \in Slots, v \in 0 .. MaxPoolVersion :
        LET r == set_inactive_vid(entities, available_ids, VID(id, v))
        IN /\ pc = "pool"
           /\ entities' = r.entities
           /\ available_ids' = r.available_ids
           /\ call' = [op |-> "set_inactive_vid"]
           /\ UNCHANGED <<player_vid, spatial_grid, tiles, mode, pc, queue, inv,
                          released, hist, frame, time_since_last_update, frame_pause>>

\* clear_all_entities
PoolClearAll ==
    LET r == clear_all_entities(entities)
    IN /\ pc = "pool"
       /\ entities' = r.entities
       /\ available_ids' = r.available_ids
       /\ call' = [op |-> "clear_all_entities"]
       /\ UNCHANGED <<player_vid, spatial_grid, tiles, mode, pc, queue, inv,
                      released, hist, frame, time_since_last_update, frame_pause>>

\* clear_all_non_player_entities
PoolClearNonPlayer ==
    LET r == clear_all_non_player_entities(entities)
    IN /\ pc = "pool"
       /\ entities' = r.entities
       /\ available_ids' = r.available_ids
       /\ call' = [op |-> "clear_all_non_player_entities"]
       /\ UNCHANGED <<player_vid, spatial_grid, tiles, mode, pc, queue, inv,
                      released, hist, frame, time_since_last_update, frame_pause>>

NextPool ==
    PoolNewEntity \/ PoolInitAs \/ PoolSetInactiveVid \/ PoolClearAll \/ PoolClearNonPlayer

SpecPool == InitPool /\ [][NextPool]_vars

\* the number of slots that are active
ActiveCount(ents) == Cardinality({i \in Slots : ents[i].active})

\* C31: after any sequence of new_entity, set_inactive_vid, clear_all_entities
\* and clear_all_non_player_entities no slot index is in the free list twice,
\* a slot is in the free list exactly when it is inactive, and the active
\* slots and the free list together number MAX_NUM_ENTITIES.
C31_PoolAccounting ==
    (pc = "pool") =>
    /\ NoDuplicates(available_ids)
    /\ \A i \in Slots :
          (\E k \in 1 .. Len(available_ids) : available_ids[k] = i) <=> ~entities[i].active
    /\ ActiveCount(entities) + Len(available_ids) = MaxEntities

\* the player was among the entities the last sweep removed
PlayerSwept == IsSome(hist.pre_player) /\ Unwrap(hist.pre_player) \in hist.swept

\* a playing tick is about to start without a player
StartsWithoutPlayer == pc = "start" /\ mode = "Playing" /\ player_vid = None

DeadAtTickStart(i) ==
    /\ entities[i].active
    /\ entities[i].health = 0
    /\ \E z \in hist.zeroed : z.vid = entities[i].vid /\ z.age >= 1

\* the step about to be taken is the round of slot i in the behaviour loop
RoundOf(i) == pc = "behave" /\ queue # <<>> /\ Head(queue) = entities[i].vid

\* the entity of slot i stays in its cell
KeepsCell(i) == entities'[i].active => entities'[i].pos = entities[i].pos

\* no entity other than that of slot i loses health
SparesOthers(i) ==
    \A j \in Slots \ {i} :
        (entities[j].active /\ entities'[j].active /\ entities'[j].vid = entities[j].vid)
            => entities'[j].health >= entities[j].health

\* C33: an entity whose health is 0 when a tick starts changes cell in no step
\* of that tick, and its round of the behaviour loop lowers no other entity's
\* health.
C33_DeadDoNotAct ==
    [][\A i \in Slots :
          DeadAtTickStart(i) => /\ KeepsCell(i)
                                /\ RoundOf(i) => SparesOthers(i)]_vars

\* the step lowers the health of the entity of slot j
Hurt(j) ==
    /\ entities[j].active
    /\ entities'[j].active
    /\ entities'[j].vid = entities[j].vid
    /\ entities'[j].health < entities[j].health

\* the step about to be taken is the round of the zombie of slot i
ZombieRound(i) == RoundOf(i) /\ entities[i].active /\ entities[i].type_ = "Zombie"

\* C34: in its round of the behaviour loop a zombie lowers the health of
\* another entity only if its attack countdown has run out, the entity has
\* player alignment and stands in one of the four cells next to the zombie;
\* never that of an enemy or neutral entity, nor of one on a diagonal or on its
\* own cell.
C34_ZombieHitsPlayerSideOnly ==
    [][\A i \in Slots : ZombieRound(i) =>
          \A j \in Slots \ {i} : Hurt(j) =>
              /\ entities[i].attack_cooldown_countdown <= 0
              /\ entities[j].alignment = "Player"
              /\ new_york_dist(entities'[i].pos, entities[j].pos) = 1]_vars

\* the entity of slot i is active and impassable
Blocks(i) == entities[i].active /\ entities[i].impassable

\* C35: after every playing tick no two distinct active impassable entities
\* have the same cell as their position, and no cell of the grid holds the
\* handles of two of them.
C35_OneImpassablePerCell ==
    (TickEnded /\ mode = "Playing") =>
        \A i \in Slots, j \in Slots :
            (i # j /\ Blocks(i) /\ Blocks(j)) =>
                /\ entities[i].pos # entities[j].pos
                /\ \A c \in Cells : ~(InCell(spatial_grid, entities[i].vid, c)
                                        /\ InCell(spatial_grid, entities[j].vid, c))



\* the cell an entity stands on has a walkable tile
OnWalkable(i) ==
    /\ in_bounds(entities[i].pos)
    /\ tiles[entities[i].pos].tile \in {"None", "Grass", "Ruin", "Rail"}

\* C36: after every playing tick, and after every single item use, every active
\* impassable entity stands on a walkable tile (None, Grass, Ruin or Rail),
\* never on a Wall or Water tile, whatever walls were placed, tiles broken,
\* rails laid and trains moved
C36_ImpassableOnWalkable ==
    ((TickEnded /\ mode = "Playing") \/ pc = "use") =>
        \A i \in Slots : Blocks(i) => OnWalkable(i)

\* a tick has ended with an impassable entity next to a Water tile
C36_Witness ==
    /\ TickEnded
    /\ mode = "Playing"
    /\ \E i \in Slots, c \in Cells :
          /\ Blocks(i)
          /\ tiles[c].tile = "Water"
          /\ new_york_dist(entities[i].pos, c) = 1

(***************************************************************************)
(* step_train on its own: rounds of step_move_cooldown and step_train for  *)
(* the trains of a stage of None and Rail tiles, with one or two trains    *)
(* (heading left, as every train does), registered in the grid or, on the  *)
(* cell at the right edge where trains are spawned, not yet, and possibly  *)
(* a zombie.                                                               *)
(***************************************************************************)
CarStages == [Cells -> {DefaultTile, RailTile}]

\* a train as step_rail_layer (lead) or step_train leaves it, countdown ticks
\* before its next move, in the grid once it has moved
PlaceTrain(st, p, countdown, registered, lead) ==
    LET a == Alloc(st)
        vid == Unwrap(a.vid)
        e == [init_as_train(a.st.entities[vid.id]) EXCEPT
                 !.pos = p, !.direction = Left,
                 !.move_cooldown_countdown = countdown,
                 !.target_pos = IF lead THEN Some(<<StageW - 1, p[2]>>) ELSE None,
                 !.counter_a = IF lead THEN TrainLengthMin ELSE 0]
    IN [a.st EXCEPT !.entities[vid.id] = e,
                    !.spatial_grid = IF registered THEN add_entity_to_grid(@, vid, p) ELSE @]

InitCar ==
    /\ \E t \in CarStages, a \in Cells, b \in Cells, z \in Cells,
          ca \in 0 .. TrainMoveTicks, cb \in {0, TrainMoveTicks},
          ra \in BOOLEAN, rb \in BOOLEAN, lead \in BOOLEAN,
          second \in BOOLEAN, walker \in BOOLEAN :
          /\ (ra \/ a[1] = StageW - 1)
          /\ (rb \/ b[1] = StageW - 1)
          /\ LET st1 == PlaceTrain(FreshWorld(t), a, ca, ra, lead)
                 st2 == IF second THEN PlaceTrain(st1, b, cb, rb, FALSE) ELSE st1
                 st == IF walker THEN PlaceZombie(st2, z, 0) ELSE st2
             IN /\ entities = st.entities
                /\ available_ids = st.available_ids
                /\ spatial_grid = st.spatial_grid
                /\ tiles = st.tiles
                /\ player_vid = st.player_vid
    /\ mode = "Playing"
    /\ pc = "car"
    /\ queue = <<>>
    /\ inv = NewInventory
    /\ call = NoCall
    /\ released = NoHandles
    /\ hist = NoHist
    /\ frame = 0
    /\ time_since_last_update = 0
    /\ frame_pause = 0

\* the cooldown step and the train step of one train's round of the loop
CarStep ==
    /\ pc = "car"
    /\ \E i \in Slots :
          /\ entities[i].active
          /\ entities[i].type_ = "Train"
          /\ Becomes(step_train(step_move_cooldown(Now, entities[i].vid), entities[i].vid))
          /\ call' = [op |-> "step_train", vid |-> entities[i].vid, pre |-> entities]
    /\ UNCHANGED <<mode, pc, queue, inv, released, hist, frame, time_since_last_update, frame_pause>>

NextCar == CarStep

SpecCar == InitCar /\ [][NextCar]_vars

\* the step about to be taken is the round of the train of slot i
TrainRound(i) ==
    /\ entities[i].active
    /\ entities[i].type_ = "Train"
    /\ \/ RoundOf(i)
       \/ pc = "car" /\ call'.op = "step_train" /\ call'.vid = entities[i].vid

\* the cell ahead of the train of slot i
Ahead(i) == Plus(entities[i].pos, entities[i].direction)

\* the train of slot i is ready to move once its cooldown has been stepped
ReadyInRound(i) == entities[i].move_cooldown_countdown <= 1

\* another active train stands in / is registered in cell c
TrainAt(c, i) ==
    \E j \in Slots \ {i} :
        entities[j].active /\ entities[j].type_ = "Train" /\ entities[j].pos = c

TrainRegistered(c, i) ==
    \E j \in Slots \ {i} :
        /\ entities[j].active
        /\ entities[j].type_ = "Train"
        /\ c \in Cells
        /\ InCell(spatial_grid, entities[j].vid, c)

\* C38: in its round a train changes cell only to the cell ahead, only when that
\* cell is in bounds with a Rail tile and holds no other train; ready before a
\* tile that is not Rail it stays and its health becomes 0; ready before the edge
\* it is marked for destruction; with another train registered ahead it stays
C38_TrainKeepsToRails ==
    [][\A i \in Slots :
          TrainRound(i) =>
              /\ (entities'[i].pos # entities[i].pos) =>
                     /\ entities'[i].pos = Ahead(i)
                     /\ in_bounds(Ahead(i))
                     /\ tiles[Ahead(i)].tile = "Rail"
                     /\ ~TrainAt(Ahead(i), i)
              /\ (ReadyInRound(i) /\ in_bounds(Ahead(i)) /\ tiles[Ahead(i)].tile # "Rail") =>
                     /\ entities'[i].pos = entities[i].pos
                     /\ entities'[i].health = 0
              /\ (ReadyInRound(i) /\ ~in_bounds(Ahead(i))) =>
                     entities'[i].marked_for_destruction
              /\ TrainRegistered(Ahead(i), i) => entities'[i].pos = entities[i].pos]_vars

\* a train has just moved while another train is on the stage
C38_Witness ==
    /\ pc = "car"
    /\ call.op = "step_train"
    /\ entities[call.vid.id].pos # call.pre[call.vid.id].pos
    /\ \E j \in Slots \ {call.vid.id} : entities[j].active /\ entities[j].type_ = "Train"

(***************************************************************************)
(* The games after the conductor hat under fair scheduling: the driver     *)
(* keeps stepping, so a step that stays possible is eventually taken.      *)
(***************************************************************************)
\* the phases of a tick follow one another while the game is being played
PhaseClock ==
    \/ /\ pc = "start" /\ mode = "Playing" /\ player_vid # None
       /\ frame < MaxTrainFrames
       /\ pc' \in {"drop", "behave"}
    \/ pc = "drop" /\ pc' = "pickup"
    \/ pc = "pickup" /\ pc' = "use"
    \/ pc = "use" /\ pc' = "behave"
    \/ pc = "behave" /\ queue = <<>> /\ pc' = "start"

\* the behaviour loop goes on to its next round
RoundClock == pc = "behave" /\ queue # <<>> /\ queue' = Tail(queue)

\* a tick that starts without a player ends the game
OverClock == pc = "start" /\ mode = "Playing" /\ player_vid = None /\ mode' = "GameOver"

SpecRail ==
    /\ InitTrain
    /\ [][NextTrain]_vars
    /\ WF_pc(PhaseClock)
    /\ WF_queue(RoundClock)
    /\ WF_mode(OverClock)

\* slot i holds a rail layer
RailLayerAt(i) == entities[i].active /\ entities[i].type_ = "RailLayer"

\* the rail layer of slot i has been marked with the edge of the map ahead
LeftAtEdge(i) ==
    /\ RailLayerAt(i)
    /\ entities[i].marked_for_destruction
    /\ ~in_bounds(Ahead(i))

\* C37: every rail layer eventually stands before the edge of the map, marked
\* for destruction (the games are followed for MaxTrainFrames ticks), and no
\* rail layer is marked anywhere else
C37_RailLayerReachesEdge ==
    /\ \A i \in Slots : RailLayerAt(i) ~> (LeftAtEdge(i) \/ frame = MaxTrainFrames)
    /\ [](\A i \in Slots :
             (RailLayerAt(i) /\ entities[i].marked_for_destruction) => ~in_bounds(Ahead(i)))

(***************************************************************************)
(* The healing items on their own: one use_item call with a Medkit, a      *)
(* Bandage or a Bandaid stack, by a user of any health up to its max_hp or *)
(* with a handle that no longer resolves.                                  *)
(***************************************************************************)
MaxHealHp == 120      \* largest max_hp of a user explored

HealTypes == {"Medkit", "Bandage", "Bandaid"}

\* max_hp of the users: that of the player (100) and one above every heal amount
HealMaxHps == {HEAL_AMOUNT, MaxHealHp}

InitHeal ==
    /\ \E m \in HealMaxHps, h \in 0 .. MaxHealHp :
          /\ h <= m
          /\ LET st == PlacePlayer(FreshWorld(EmptyStage), <<0, 0>>)
                 vid == Unwrap(st.player_vid)
             IN /\ entities = [st.entities EXCEPT ![vid.id].health = h, ![vid.id].max_hp = m]
                /\ available_ids = st.available_ids
                /\ spatial_grid = st.spatial_grid
                /\ tiles = st.tiles
                /\ player_vid = st.player_vid
    /\ mode = "Playing"
    /\ pc = "heal"
    /\ queue = <<>>
    /\ inv = NewInventory
    /\ call = NoCall
    /\ released = NoHandles
    /\ hist = NoHist
    /\ frame = 0
    /\ time_since_last_update = 0
    /\ frame_pause = 0

\* one use_item call; stale: the handle passed is that of an earlier occupant
HealCall ==
    \E t \in HealTypes, n \in 0 .. MaxItemCount, cd \in 0 .. MaxCountdown, stale \in BOOLEAN :
        LET live == Unwrap(player_vid)
            user == IF stale THEN VID(live.id, live.version - 1) ELSE live
            item == [ItemWithCount(t, n) EXCEPT !.use_cooldown_countdown = cd]
            r == use_item(Now, user, item, "center")
        IN /\ pc = "heal"
           /\ Becomes(r.st)
           /\ call' = [op |-> "use_item", pre |-> entities, user |-> user, item |-> item,
                       after |-> r.item, marked |-> r.marked, ret |-> r.ret]
           /\ pc' = "healed"
           /\ UNCHANGED <<mode, queue, inv, released, hist, frame,
                          time_since_last_update, frame_pause>>

NextHeal == HealCall

SpecHeal == InitHeal /\ [][NextHeal]_vars

\* the amount the item of the call heals
HealOf(t) == IF t = "Medkit" THEN 100 ELSE IF t = "Bandage" THEN 10 ELSE 1

\* the user handle of the call resolved when the call was made
UserResolved == call.pre[call.user.id].active /\ call.pre[call.user.id].vid = call.user

\* C39: a use of a Medkit, Bandage or Bandaid that succeeds leaves the user's
\* health at the smaller of health + 100, 10 or 1 and max_hp, never above max_hp;
\* with the user at max_hp, or a handle that does not resolve, the use fails and
\* changes neither the world nor the count or the cooldown of the stack
C39_HealingCapped ==
    (pc = "healed") =>
        LET i == call.user.id
            h == call.pre[i].health
            m == call.pre[i].max_hp
            sum == h + HealOf(call.item.type_)
        IN /\ entities[i].health <= entities[i].max_hp
           /\ call.ret =>
                  /\ UserResolved
                  /\ h < m
                  /\ entities[i].health = (IF sum <= m THEN sum ELSE m)
                  /\ entities = [call.pre EXCEPT ![i].health = entities[i].health]
           /\ (~UserResolved \/ h >= m) =>
                  /\ ~call.ret
                  /\ entities = call.pre
                  /\ call.after = call.item
                  /\ ~call.marked
           /\ (UserResolved /\ h < m /\ call.item.count > 0
                 /\ call.item.use_cooldown_countdown <= 0) => call.ret

\* a Bandage has been used by a user less than 10 below max_hp
C39_Witness ==
    /\ pc = "healed"
    /\ call.item.type_ = "Bandage"
    /\ call.ret
    /\ call.pre[call.user.id].health + 10 > call.pre[call.user.id].max_hp
    /\ entities[call.user.id].health = entities[call.user.id].max_hp

(***************************************************************************)
(* The inventory from empty: any sequence of insert, remove_selected_entry,*)
(* remove_count_from_slot and selection changes.  The stacks inserted are  *)
(* a Fist, a single Medkit and a full Medkit stack; at most MaxStacks      *)
(* Medkit stacks are held at a time, full or one short of full.            *)
(***************************************************************************)
BagCounts == {MedkitMaxCount - 1, MedkitMaxCount}

BagItems == {NewItem("Fist"), NewItem("Medkit"), ItemWithCount("Medkit", MedkitMaxCount)}

\* the part of the inventories that is followed
InBag(i) ==
    /\ Cardinality({k \in 1 .. Len(i.entries) : i.entries[k].item.type_ = "Medkit"}) <= MaxStacks
    /\ \A k \in 1 .. Len(i.entries) :
          i.entries[k].item.type_ = "Medkit" => i.entries[k].item.count \in BagCounts

InitBag ==
    /\ entities = [i \in Slots |-> DefaultEntity(i)]
    /\ available_ids = InitialIds(MaxEntities)
    /\ player_vid = None
    /\ spatial_grid = EmptyGrid
    /\ tiles = EmptyStage
    /\ mode = "Title"
    /\ pc = "bag"
    /\ queue = <<>>
    /\ inv = NewInventory
    /\ call = NoCall
    /\ released = NoHandles
    /\ hist = NoHist
    /\ frame = 0
    /\ time_since_last_update = 0
    /\ frame_pause = 0

\* the inventory becomes i, everything else stays
BagBecomes(i) ==
    /\ pc = "bag"
    /\ InBag(i)
    /\ inv' = i
    /\ UNCHANGED <<entities, available_ids, player_vid, spatial_grid, tiles, mode, pc,
                   queue, call, released, hist, frame, time_since_last_update, frame_pause>>

BagInsert == \E item \in BagItems : BagBecomes(Insert(inv, item).inv)

BagRemoveSelected == BagBecomes(remove_selected_entry(inv))

\* from the selected slot, the first slot or a slot that does not exist
BagRemoveCount ==
    \E idx \in {inv.selected_index, 0, MAX_SLOTS}, n \in {0, 1, MedkitMaxCount} :
        BagBecomes(remove_count_from_slot(inv, idx, n))

\* the first or the last slot, or an index past the last
BagSetSelected ==
    \E idx \in {0, MAX_SLOTS - 1, MAX_SLOTS, MAX_SLOTS + 1} :
        BagBecomes(set_selected_index(inv, idx))

BagIncrement == BagBecomes(increment_selected_index(inv))

BagDecrement == BagBecomes(decrement_selected_index(inv))

NextBag ==
    \/ BagInsert
    \/ BagRemoveSelected
    \/ BagRemoveCount
    \/ BagSetSelected
    \/ BagIncrement
    \/ BagDecrement

SpecBag == InitBag /\ [][NextBag]_vars

====
